---------------------------- MODULE Spec2Model ----------------------------
(***************************************************************************)
(* Multi-provider extraction pipeline of AI-Chart:                         *)
(*   - provider registry (config.ts, registry.ts)                          *)
(*   - image extraction with retry/backoff (extractors/image.ts)           *)
(*   - PDF extraction with vision <-> text fallback and multi-page merge   *)
(*     (extractors/pdf.ts)                                                 *)
(* Strings that the code builds by concatenation are sequences of parts.   *)
(* An optional field of a JS object is a field that is absent from the     *)
(* record's DOMAIN.                                                        *)
(***************************************************************************)
EXTENDS Integers, Sequences, FiniteSets, TLC

(***************************************************************************)
(* Bounds of the model                                                     *)
(***************************************************************************)
MaxRetriesBound == 6

MaxPages == 3

MaxMergePages == 3

MaxMergeItems == 4

\* the longest buffer that is encoded and decoded
MaxBytes == 3

\* the longest payload that follows the head of a string input
MaxPayload == 2
MaxUpdateItems == 2

(***************************************************************************)
(* JavaScript values                                                       *)
(***************************************************************************)
\* an argument or environment variable that was not supplied
Undefined == "<undefined>"

\* JS truthiness of an optional string
Truthy(s) == s \notin {Undefined, ""}

Min(a, b) == IF a <= b THEN a ELSE b

RECURSIVE Pow2(_)
Pow2(n) == IF n <= 0 THEN 1 ELSE 2 * Pow2(n - 1)

\* new Error(message)
NewError(parts) == [isError |-> TRUE, name |-> "Error", message |-> parts]

\* the TypeError the runtime raises on a property read of undefined
NewTypeError(parts) == [isError |-> TRUE, name |-> "TypeError", message |-> parts]

\* a thrown value that is not an Error instance
NonErrorThrown == [isError |-> FALSE, name |-> "value", message |-> <<>>]

(***************************************************************************)
(* config.ts                                                               *)
(***************************************************************************)
Providers == <<"google", "openai", "anthropic", "deepseek", "openrouter", "cloudflare">>

ProviderSet == {Providers[i] : i \in 1..Len(Providers)}

isValidProvider(p) == \E i \in 1..Len(Providers) : Providers[i] = p

EnvNames ==
    {"DEFAULT_PROVIDER", "GOOGLE_GENERATIVE_AI_API_KEY", "OPENAI_API_KEY",
     "ANTHROPIC_API_KEY", "DEEPSEEK_API_KEY", "OPENROUTER_API_KEY",
     "CLOUDFLARE_ACCOUNT_ID", "CLOUDFLARE_API_KEY"}

\* env var || ''
OrEmpty(s) == IF Truthy(s) THEN s ELSE ""

\* an auto-detection that ends at 'google' when no credential is configured
DetectProviderFallbackGoogle(e) ==
    IF Truthy(e["GOOGLE_GENERATIVE_AI_API_KEY"]) THEN "google"
    ELSE IF Truthy(e["OPENAI_API_KEY"]) THEN "openai"
    ELSE IF Truthy(e["ANTHROPIC_API_KEY"]) THEN "anthropic"
    ELSE IF Truthy(e["DEEPSEEK_API_KEY"]) THEN "deepseek"
    ELSE IF Truthy(e["OPENROUTER_API_KEY"]) THEN "openrouter"
    ELSE IF Truthy(e["CLOUDFLARE_ACCOUNT_ID"]) /\ Truthy(e["CLOUDFLARE_API_KEY"])
         THEN "cloudflare"
    ELSE "google"

\* the auto-detection of getAIConfig: the first configured provider, else the
\* initial value of defaultProvider
DetectProvider(e) ==
    IF Truthy(e["GOOGLE_GENERATIVE_AI_API_KEY"]) THEN "google"
    ELSE IF Truthy(e["OPENAI_API_KEY"]) THEN "openai"
    ELSE IF Truthy(e["ANTHROPIC_API_KEY"]) THEN "anthropic"
    ELSE IF Truthy(e["DEEPSEEK_API_KEY"]) THEN "deepseek"
    ELSE IF Truthy(e["OPENROUTER_API_KEY"]) THEN "openrouter"
    ELSE IF Truthy(e["CLOUDFLARE_ACCOUNT_ID"]) /\ Truthy(e["CLOUDFLARE_API_KEY"])
         THEN "cloudflare"
    ELSE "openrouter"

\* a configuration that takes DEFAULT_PROVIDER only when that provider's key is
\* set and otherwise goes on to the auto-detection
getAIConfigSkipsUnconfigured(e) ==
    LET dp == e["DEFAULT_PROVIDER"]
        key == [google |-> "GOOGLE_GENERATIVE_AI_API_KEY", openai |-> "OPENAI_API_KEY",
                anthropic |-> "ANTHROPIC_API_KEY", deepseek |-> "DEEPSEEK_API_KEY",
                openrouter |-> "OPENROUTER_API_KEY", cloudflare |-> "CLOUDFLARE_API_KEY"]
    IN
    [defaultProvider |->
        IF Truthy(dp) /\ isValidProvider(dp) /\ Truthy(e[key[dp]])
        THEN dp
        ELSE DetectProvider(e),
     google |-> OrEmpty(e["GOOGLE_GENERATIVE_AI_API_KEY"]),
     openai |-> OrEmpty(e["OPENAI_API_KEY"]),
     anthropic |-> OrEmpty(e["ANTHROPIC_API_KEY"]),
     deepseek |-> OrEmpty(e["DEEPSEEK_API_KEY"]),
     openrouter |-> OrEmpty(e["OPENROUTER_API_KEY"]),
     cloudflareAccountId |-> OrEmpty(e["CLOUDFLARE_ACCOUNT_ID"]),
     cloudflareApiKey |-> OrEmpty(e["CLOUDFLARE_API_KEY"])]

getAIConfig(e) ==
    [defaultProvider |->
        IF Truthy(e["DEFAULT_PROVIDER"]) /\ isValidProvider(e["DEFAULT_PROVIDER"])
        THEN e["DEFAULT_PROVIDER"]
        ELSE DetectProvider(e),
     google |-> OrEmpty(e["GOOGLE_GENERATIVE_AI_API_KEY"]),
     openai |-> OrEmpty(e["OPENAI_API_KEY"]),
     anthropic |-> OrEmpty(e["ANTHROPIC_API_KEY"]),
     deepseek |-> OrEmpty(e["DEEPSEEK_API_KEY"]),
     openrouter |-> OrEmpty(e["OPENROUTER_API_KEY"]),
     cloudflareAccountId |-> OrEmpty(e["CLOUDFLARE_ACCOUNT_ID"]),
     cloudflareApiKey |-> OrEmpty(e["CLOUDFLARE_API_KEY"])]

(***************************************************************************)
(* registry.ts                                                             *)
(* A call either returns a model handle or throws: [ok, model] / [ok, err] *)
(***************************************************************************)
DEFAULT_MODELS ==
    [google |-> [vision |-> "gemini-2.5-flash", reasoning |-> "gemini-2.5-flash",
                 advanced |-> "gemini-2.5-pro"],
     openai |-> [vision |-> "gpt-4o", reasoning |-> "gpt-4o", advanced |-> "o1"],
     anthropic |-> [vision |-> "claude-3-5-sonnet-20241022",
                    reasoning |-> "claude-3-5-sonnet-20241022",
                    advanced |-> "claude-3-5-sonnet-20241022"],
     deepseek |-> [vision |-> "deepseek-chat", reasoning |-> "deepseek-chat",
                   advanced |-> "deepseek-reasoner"],
     openrouter |-> [vision |-> "google/gemma-3-27b-it:free",
                     reasoning |-> "google/gemma-3-27b-it:free",
                     advanced |-> "google/gemma-3-27b-it:free"],
     cloudflare |-> [vision |-> "@cf/meta/llama-3.2-11b-vision-instruct",
                     reasoning |-> "@cf/meta/llama-3.3-70b-instruct-fp8-fast",
                     advanced |-> "@cf/meta/llama-3.3-70b-instruct-fp8-fast"]]

Handle(p, m) == [ok |-> TRUE, provider |-> p, modelId |-> m]

Throws(err) == [ok |-> FALSE, error |-> err]

KeyMissing(label) == Throws(NewError(<<label, " API key not configured">>))

\* a provider branch that builds the client without looking at the key, leaving
\* the missing credential to surface on first use
KeyedInstanceLazy(p, m, key, label) == Handle(p, m)

\* if (!config.<provider>.apiKey) throw ...; return create<Provider>({apiKey})(modelId)
KeyedInstance(p, m, key, label) ==
    IF ~Truthy(key) THEN KeyMissing(label) ELSE Handle(p, m)

\* a cloudflare branch that requires the API key instead of the binding
CloudflareInstanceByKey(m, binding, config) ==
    IF ~Truthy(config.cloudflareApiKey) THEN KeyMissing("Cloudflare")
    ELSE Handle("cloudflare", m)

\* case 'cloudflare': the binding is required, the credentials are not looked at
CloudflareInstance(m, binding, config) ==
    IF ~Truthy(binding)
    THEN Throws(NewError(<<"Cloudflare Workers AI binding is required. ",
                           "Pass the AI binding from env.">>))
    ELSE Handle("cloudflare", m)

getModelInstance(p, m, e, binding) ==
    LET config == getAIConfig(e) IN
    CASE p = "google" -> KeyedInstance(p, m, config.google, "Google")
      [] p = "openai" -> KeyedInstance(p, m, config.openai, "OpenAI")
      [] p = "anthropic" -> KeyedInstance(p, m, config.anthropic, "Anthropic")
      [] p = "deepseek" -> KeyedInstance(p, m, config.deepseek, "DeepSeek")
      [] p = "openrouter" -> KeyedInstance(p, m, config.openrouter, "OpenRouter")
      [] p = "cloudflare" -> CloudflareInstance(m, binding, config)
      [] OTHER -> Throws(NewError(<<"Unsupported provider: ", p>>))

\* provider || config.defaultProvider ; modelId || DEFAULT_MODELS[selected][role]
getRoleModel(role, e, m, p, binding) ==
    LET selectedProvider == IF Truthy(p) THEN p ELSE getAIConfig(e).defaultProvider IN
    IF Truthy(m) THEN getModelInstance(selectedProvider, m, e, binding)
    ELSE IF selectedProvider \notin DOMAIN DEFAULT_MODELS
         THEN Throws(NewTypeError(<<"Cannot read properties of undefined (reading '",
                                    role, "')">>))
         ELSE getModelInstance(selectedProvider, DEFAULT_MODELS[selectedProvider][role],
                               e, binding)

getVisionModel(e, m, p, binding) == getRoleModel("vision", e, m, p, binding)

getReasoningModel(e, m, p, binding) == getRoleModel("reasoning", e, m, p, binding)

getAdvancedModel(e, m, p, binding) == getRoleModel("advanced", e, m, p, binding)

getCustomModel(e, p, m, binding) == getModelInstance(p, m, e, binding)


(***************************************************************************)
(* Inputs of an extraction request                                         *)
(***************************************************************************)
EnvWith(defaultProvider, present) ==
    [n \in EnvNames |->
        IF n = "DEFAULT_PROVIDER" THEN defaultProvider
        ELSE IF n \in present THEN "secret" ELSE Undefined]

\* (env, modelId, provider) triples a request is made with: handles that build,
\* a missing credential, a missing binding, an unsupported provider
RegistryInputs ==
    {[env |-> EnvWith(Undefined, {"GOOGLE_GENERATIVE_AI_API_KEY"}),
      modelId |-> Undefined, provider |-> Undefined],
     [env |-> EnvWith(Undefined, {"GOOGLE_GENERATIVE_AI_API_KEY"}),
      modelId |-> "custom-model", provider |-> "google"],
     [env |-> EnvWith(Undefined, {}), modelId |-> Undefined, provider |-> Undefined],
     [env |-> EnvWith("openai", {"GOOGLE_GENERATIVE_AI_API_KEY"}),
      modelId |-> Undefined, provider |-> Undefined],
     [env |-> EnvWith(Undefined, {"CLOUDFLARE_ACCOUNT_ID", "CLOUDFLARE_API_KEY"}),
      modelId |-> Undefined, provider |-> Undefined],
     [env |-> EnvWith(Undefined, {"GOOGLE_GENERATIVE_AI_API_KEY"}),
      modelId |-> "custom-model", provider |-> "mistral"],
     [env |-> EnvWith(Undefined, {"GOOGLE_GENERATIVE_AI_API_KEY"}),
      modelId |-> Undefined, provider |-> "mistral"],
     [env |-> EnvWith(Undefined, {"OPENAI_API_KEY"}),
      modelId |-> Undefined, provider |-> "google"],
     [env |-> EnvWith(Undefined, {"GOOGLE_GENERATIVE_AI_API_KEY"}),
      modelId |-> Undefined, provider |-> "anthropic"],
     [env |-> EnvWith("deepseek", {"GOOGLE_GENERATIVE_AI_API_KEY"}),
      modelId |-> "custom-model", provider |-> Undefined],
     [env |-> EnvWith(Undefined, {"GOOGLE_GENERATIVE_AI_API_KEY"}),
      modelId |-> Undefined, provider |-> "cloudflare"],
     [env |-> EnvWith("cloudflare", {"GOOGLE_GENERATIVE_AI_API_KEY", "CLOUDFLARE_API_KEY"}),
      modelId |-> Undefined, provider |-> Undefined]}

DataDomains == {"health", "finance"}

(***************************************************************************)
(* shared: MetricItemSchema and RecordDataSchema. A field of the right type *)
(* is a field that is present; the enums are checked by value.              *)
(***************************************************************************)
MetricStatuses ==
    {"normal", "high", "low", "positive", "negative", "income", "expense", "neutral"}

MatchesMetricItemSchema(item) ==
    /\ {"key", "name", "value", "status"} \subseteq DOMAIN item
    /\ DOMAIN item \subseteq {"key", "name", "value", "unit", "status", "reference", "notes",
                              "displayOrder", "categoryTag", "parentKey"}
    /\ item.status \in MetricStatuses

MatchesRecordDataSchema(r) ==
    /\ {"type", "category", "date", "items"} \subseteq DOMAIN r
    /\ DOMAIN r \subseteq {"type", "title", "category", "date", "summary", "items"}
    /\ r.type \in DataDomains
    /\ \A i \in 1..Len(r.items) : MatchesMetricItemSchema(r.items[i])

(***************************************************************************)
(* generateText with Output.object({schema: RecordDataSchema}): an external *)
(* call that resolves with a schema-valid object or rejects                 *)
(***************************************************************************)
TransportError == NewError(<<"API call failed">>)

SchemaError == NewError(<<"No object generated: response did not match schema.">>)

\* what the model may answer for a document that shows the record `shown`: the
\* record, the record without its date, with a type outside the enum, or with
\* an item that has no value and a status outside the enum
ModelResponses(shown) ==
    {shown,
     [f \in DOMAIN shown \ {"date"} |-> shown[f]],
     [shown EXCEPT !.type = "other"],
     [shown EXCEPT !.items = <<[key |-> "wbc", name |-> "WBC", status |-> "unknown"]>>]}

\* a generateText call without the output schema: whatever the model answers is returned
GenerateTextUnvalidated(shown) ==
    {[ok |-> TRUE, value |-> r] : r \in ModelResponses(shown)}
       \cup {Throws(TransportError), Throws(NonErrorThrown)}

\* the settlements of generateText({model, output: Output.object({schema}), ...}):
\* an answer that matches the schema is the output, any other answer rejects
GenerateText(shown) ==
    {[ok |-> TRUE, value |-> r] : r \in {x \in ModelResponses(shown) : MatchesRecordDataSchema(x)}}
       \cup {Throws(SchemaError) : r \in {x \in ModelResponses(shown) : ~MatchesRecordDataSchema(x)}}
       \cup {Throws(TransportError), Throws(NonErrorThrown)}

\* result.output of the calls that fulfil
Outputs(shown) == {o.value : o \in {x \in GenerateText(shown) : x.ok}}

\* the errors of the calls that reject
Rejections(shown) == {o.error : o \in {x \in GenerateText(shown) : ~x.ok}}

\* the object the vision model produces for the image on its n-th call
ImageOutput(d, n) ==
    [type |-> d, category |-> "blood_test", date |-> "2024-01-01", summary |-> n,
     items |-> <<[key |-> "wbc", name |-> "WBC", value |-> n, status |-> "normal"]>>]

VARIABLES
    entry,        \* which entry point this request calls
    env,          \* AIEnvironment
    domain,       \* DataDomain
    modelId,      \* optional model id override
    provider,     \* optional provider override
    maxRetries,   \* extractDataFromImageWithRetry: maxRetries
    rPc,          \* extractDataFromImageWithRetry: where the call is
    attempt,      \* extractDataFromImageWithRetry: loop variable
    lastError,    \* extractDataFromImageWithRetry: lastError
    rCall,        \* the awaited extractDataFromImage promise
    rOutcome,     \* what the call returned or threw
    rLog          \* history: attempts started and settled, timers set and fired

retryVars == <<maxRetries, rPc, attempt, lastError, rCall, rOutcome, rLog>>

inputVars == <<entry, env, domain, modelId, provider>>

VARIABLES
    strategy,     \* options.strategy
    canvas,       \* whether globalThis.OffscreenCanvas exists
    pdfFault,     \* what pdfjs fails at for this buffer: nothing, loading, rendering
    numPages,     \* pdfDoc.numPages
    docKind,      \* which document the pages show
    pPc,          \* extractDataFromPDF: where the call is
    pCur,         \* the strategy being attempted
    pStage,       \* inside the try block (primary) or the catch block (fallback)
    pages,        \* the per-page extractDataFromImage promises
    pResults,     \* what Promise.all has collected
    pOrder,       \* history: the pages in the order their extractions fulfilled
    pOutcome,     \* what the call returned or threw
    pLog          \* history: strategies tried and failed, loads, model calls issued

pdfInputVars == <<strategy, canvas, pdfFault, numPages, docKind>>

pdfVars == <<pdfInputVars, pPc, pCur, pStage, pages, pResults, pOrder, pOutcome, pLog>>

VARIABLES
    mResults,     \* mergeMultiPageResults: the results it is given
    mOutcome      \* mergeMultiPageResults: what it returned or threw

mergeVars == <<mResults, mOutcome>>

VARIABLES
    role,         \* which registry function is called: a role, or "custom"
    binding,      \* the Workers AI binding passed to the registry function
    gOutcome,     \* what the registry function returned or threw
    cOutcome      \* what getAIConfig returned

regVars == <<role, binding, gOutcome, cOutcome>>

VARIABLES
    imageInput,   \* extractDataFromImage: imageBuffer, a string or an ArrayBuffer
    imageUrl,     \* extractDataFromImage: imageUrl
    base64,       \* what arrayBufferToBase64 returned for the buffer
    decoded       \* what base64ToArrayBuffer returned for that string

codecVars == <<imageInput, imageUrl, base64, decoded>>

VARIABLES
    dbRecords,    \* table records: id -> row
    dbMetrics,    \* table metrics: the set of its rows
    dbNextId,     \* the next autoincrement id of table metrics
    dbBefore,     \* history: the metrics rows when updateRecordData was called
    uRecordId,    \* updateRecordData: recordId
    updates,      \* updateRecordData: updates
    uPc,          \* updateRecordData: where the call is
    uPending      \* the inserts of insertMetrics that have not run yet

dbVars == <<dbRecords, dbMetrics, dbNextId, dbBefore, uRecordId, updates, uPc, uPending>>

VARIABLES
    route,        \* which upload route handles the request
    fileType,     \* detectFileType(fileObj)
    rtPc,         \* where the handler is
    rtCaught,     \* history: the error the handler's catch block received
    rtCause,      \* history: where that error came from
    rtData,       \* the extracted record
    response      \* the response of the handler

routeVars == <<route, fileType, rtPc, rtCaught, rtCause, rtData, response>>

Null == [isError |-> FALSE, name |-> "null", message |-> <<>>]

NoCall == [state |-> "none"]

NoOutcome == [kind |-> "pending"]

Returned(v) == [kind |-> "return", value |-> v]

Thrown(e) == [kind |-> "throw", error |-> e]

Event(e, n, d) == [ev |-> e, n |-> n, d |-> d]

(***************************************************************************)
(* extractors/image.ts: extractDataFromImage                               *)
(* The synchronous prefix builds the model handle; a throw there rejects    *)
(* the returned promise before any model call is issued.                    *)
(***************************************************************************)
\* an extractor that hands a Workers AI binding on to the registry
extractDataFromImageCallWithBinding(e, m, p) ==
    LET model == getVisionModel(e, m, p, "AI") IN
    IF model.ok THEN [state |-> "inflight", model |-> model]
    ELSE [state |-> "rejected", error |-> model.error]

extractDataFromImageCall(e, m, p) ==
    LET model == getVisionModel(e, m, p, Undefined) IN
    IF model.ok THEN [state |-> "inflight", model |-> model]
    ELSE [state |-> "rejected", error |-> model.error]

(***************************************************************************)
(* extractDataFromImageWithRetry                                           *)
(***************************************************************************)
\* lastError?.message inside the template string
MessageOf(err) == IF err = Null THEN <<"undefined">> ELSE err.message

ExhaustedError(d, n, last) ==
    NewError(<<"Failed to extract ", d, " data from image after ", ToString(n),
               " attempts: ">> \o MessageOf(last))

\* error instanceof Error ? error : new Error("Unknown error")
CaughtError(err) == IF err.isError THEN err ELSE NewError(<<"Unknown error">>)

\* a backoff whose exponent is the attempt number itself
BackoffDelayFromAttempt(a) == Min(1000 * Pow2(a), 10000)

\* Math.min(1000 * Math.pow(2, attempt - 1), 10000)
BackoffDelay(a) == Min(1000 * Pow2(a - 1), 10000)

\* if (attempt === maxRetries) break
IsLastAttempt(a, max) == a = max

\* a loop test that stops one attempt early
LoopContinuesStrict(a, max) == a < max

\* a loop that tests its condition only after the first attempt
LoopContinuesAfterFirst(a, max) == a = 1 \/ a <= max

\* for (...; attempt <= maxRetries; ...)
LoopContinues(a, max) == a <= max

\* the loop test and, when it passes, the call of the n-th attempt; when it
\* fails, the throw that follows the loop
EnterLoop(a, log, last) ==
    /\ attempt' = a
    /\ IF LoopContinues(a, maxRetries)
       THEN /\ rPc' = "attempt"
            /\ rCall' = extractDataFromImageCall(env, modelId, provider)
            /\ rLog' = Append(log, Event("start", a, 0))
            /\ rOutcome' = rOutcome
       ELSE /\ rPc' = "thrown"
            /\ rCall' = NoCall
            /\ rLog' = log
            /\ rOutcome' = Thrown(ExhaustedError(domain, maxRetries, last))

RetryStart ==
    /\ entry = "retry"
    /\ rPc = "start"
    /\ lastError' = Null
    /\ EnterLoop(1, rLog, Null)
    /\ UNCHANGED <<inputVars, maxRetries, pdfVars, mergeVars, regVars, codecVars, dbVars, routeVars>>

\* return await extractDataFromImage(...)
AttemptResolves ==
    /\ rPc = "attempt"
    /\ rCall.state = "inflight"
    /\ rPc' = "returned"
    /\ rCall' = NoCall
    /\ \E v \in Outputs(ImageOutput(domain, attempt)) : rOutcome' = Returned(v)
    /\ rLog' = Append(rLog, Event("ok", attempt, 0))
    /\ UNCHANGED <<inputVars, maxRetries, attempt, lastError, pdfVars, mergeVars, regVars, codecVars, dbVars, routeVars>>

\* a catch block that sets the timer and goes on without awaiting it
RetryCatchNoAwait(err) ==
    LET failed == Append(rLog, [ev |-> "fail", n |-> attempt, d |-> 0, err |-> err]) IN
    /\ lastError' = CaughtError(err)
    /\ IF IsLastAttempt(attempt, maxRetries)
       THEN /\ rPc' = "thrown"
            /\ rCall' = NoCall
            /\ attempt' = attempt
            /\ rLog' = failed
            /\ rOutcome' = Thrown(ExhaustedError(domain, maxRetries, lastError'))
       ELSE EnterLoop(attempt + 1,
                      Append(failed, Event("sleep", attempt, BackoffDelay(attempt))),
                      lastError')

\* a catch block that keeps the first error it saw
RetryCatchKeepsFirst(err) ==
    LET failed == Append(rLog, [ev |-> "fail", n |-> attempt, d |-> 0, err |-> err]) IN
    /\ lastError' = IF lastError = Null THEN CaughtError(err) ELSE lastError
    /\ rCall' = NoCall
    /\ attempt' = attempt
    /\ IF IsLastAttempt(attempt, maxRetries)
       THEN /\ rPc' = "thrown"
            /\ rLog' = failed
            /\ rOutcome' = Thrown(ExhaustedError(domain, maxRetries, lastError'))
       ELSE /\ rPc' = "backoff"
            /\ rLog' = Append(failed, Event("sleep", attempt, BackoffDelay(attempt)))
            /\ rOutcome' = rOutcome

\* the catch block, up to the await of the timer
RetryCatch(err) ==
    LET failed == Append(rLog, [ev |-> "fail", n |-> attempt, d |-> 0, err |-> err]) IN
    /\ lastError' = CaughtError(err)
    /\ rCall' = NoCall
    /\ attempt' = attempt
    /\ IF IsLastAttempt(attempt, maxRetries)
       THEN /\ rPc' = "thrown"
            /\ rLog' = failed
            /\ rOutcome' = Thrown(ExhaustedError(domain, maxRetries, lastError'))
       ELSE /\ rPc' = "backoff"
            /\ rLog' = Append(failed, Event("sleep", attempt, BackoffDelay(attempt)))
            /\ rOutcome' = rOutcome

AttemptRejects ==
    /\ rPc = "attempt"
    /\ \E err \in (IF rCall.state = "rejected" THEN {rCall.error}
                    ELSE Rejections(ImageOutput(domain, attempt))) :
          RetryCatch(err)
    /\ UNCHANGED <<inputVars, maxRetries, pdfVars, mergeVars, regVars, codecVars, dbVars, routeVars>>

\* the timer fires: attempt++, the loop test, the next call
RetryWake ==
    /\ rPc = "backoff"
    /\ lastError' = lastError
    /\ EnterLoop(attempt + 1, Append(rLog, Event("wake", attempt, 0)), lastError)
    /\ UNCHANGED <<inputVars, maxRetries, pdfVars, mergeVars, regVars, codecVars, dbVars, routeVars>>

RetryInit ==
    /\ maxRetries \in (0 - 1)..MaxRetriesBound
    /\ rPc = "start"
    /\ attempt = 0
    /\ lastError = Null
    /\ rCall = NoCall
    /\ rOutcome = NoOutcome
    /\ rLog = <<>>

(***************************************************************************)
(* extractors/pdf.ts                                                       *)
(***************************************************************************)
RECURSIVE Concat(_)
\* merged.items.push(...result.items) for every result, in the order of results
Concat(ss) == IF ss = <<>> THEN <<>> ELSE Head(ss) \o Concat(Tail(ss))

\* A JS Map, as the sequence of its entries in insertion order
MapHas(m, k) == \E i \in 1..Len(m) : m[i].key = k

\* a map in which setting a key that is present moves its entry to the end
MapSetMovesToEnd(m, k, v) ==
    Append(SelectSeq(m, LAMBDA x : x.key # k), [key |-> k, item |-> v])

\* Map.prototype.set: a key already present keeps its place and takes the value
MapSet(m, k, v) ==
    IF MapHas(m, k)
    THEN [i \in 1..Len(m) |-> IF m[i].key = k THEN [key |-> k, item |-> v] ELSE m[i]]
    ELSE Append(m, [key |-> k, item |-> v])

\* item.value !== undefined
HasValue(item) == "value" \in DOMAIN item

\* a dedup in which the later item always overwrites
DedupStepLastWins(m, item) == MapSet(m, item.key, item)

\* a dedup in which the first item of a key is kept
DedupStepFirstWins(m, item) == IF ~MapHas(m, item.key) THEN MapSet(m, item.key, item) ELSE m

\* if (!uniqueItems.has(item.key) || item.value !== undefined) uniqueItems.set(...)
DedupStep(m, item) ==
    IF ~MapHas(m, item.key) \/ HasValue(item) THEN MapSet(m, item.key, item) ELSE m

RECURSIVE DedupFrom(_, _)
DedupFrom(m, items) ==
    IF items = <<>> THEN m ELSE DedupFrom(DedupStep(m, Head(items)), Tail(items))

\* Array.from(uniqueItems.values())
MapValues(m) == [i \in 1..Len(m) |-> m[i].item]

ResultItems(r) == IF "items" \in DOMAIN r THEN r.items ELSE <<>>

\* a merge whose metadata leaves the summary out
MergedHeaderNoSummary(first) ==
    [f \in {"type", "category", "date"} \cap DOMAIN first |-> first[f]]

\* a merge whose metadata carries the first page's title along
MergedHeaderWithTitle(first) ==
    [f \in {"type", "title", "category", "date", "summary"} \cap DOMAIN first |-> first[f]]

\* the metadata of the merged record: type, category, date and summary of results[0]
MergedHeader(first) ==
    [f \in {"type", "category", "date", "summary"} \cap DOMAIN first |-> first[f]]

mergeMultiPageResults(results) ==
    IF Len(results) = 0 THEN Throws(NewError(<<"No results to merge">>))
    ELSE IF Len(results) = 1 THEN [ok |-> TRUE, value |-> results[1]]
    ELSE LET all == Concat([i \in 1..Len(results) |-> ResultItems(results[i])])
             unique == MapValues(DedupFrom(<<>>, all))
         IN [ok |-> TRUE,
             value |-> [f \in DOMAIN MergedHeader(results[1]) \cup {"items"} |->
                          IF f = "items" THEN unique ELSE MergedHeader(results[1])[f]]]

\* the documents: every key on one page only, a key repeated on every page, a
\* key listed twice on each page
DocKinds == {"distinct", "repeat", "twice"}

\* the object the vision model produces for page i of the document
PageOutput(kind, d, i) ==
    [type |-> d, title |-> <<"page ", ToString(i)>>, category |-> <<"category ", ToString(i)>>,
     date |-> <<"2024-01-0", ToString(i)>>, summary |-> i,
     items |->
        IF kind = "distinct"
        THEN <<[key |-> <<"a", i>>, name |-> "A", value |-> 10 * i, status |-> "normal"],
               [key |-> <<"b", i>>, name |-> "B", value |-> 10 * i + 1, status |-> "high"]>>
        ELSE IF kind = "repeat"
        THEN <<[key |-> <<"wbc", 0>>, name |-> "WBC", value |-> 10 * i, status |-> "normal"],
               [key |-> <<"p", i>>, name |-> "P", value |-> 10 * i + 1, status |-> "low"]>>
        ELSE <<[key |-> <<"wbc", 0>>, name |-> "WBC", value |-> 10 * i, status |-> "normal"],
               [key |-> <<"wbc", 0>>, name |-> "WBC", value |-> 10 * i + 1, status |-> "high"]>>]

\* the object the reasoning model produces for the text of the document
TextOutput(d) ==
    [type |-> d, category |-> <<"category ", "text">>, date |-> <<"2024-01-0", "1">>,
     items |-> <<[key |-> <<"wbc", 0>>, name |-> "WBC", value |-> 5, status |-> "normal"]>>]

NoResult == [none |-> TRUE]

PdfEvent(e, s) == [ev |-> e, s |-> s]

\* a fallback that runs the strategy that has just failed
SameStrategy(s) == s

OtherStrategy(s) == IF s = "text" THEN "vision" ELSE "text"

\* const { strategy = 'vision' } = options ; if (strategy === 'text') ... else ...
PrimaryStrategy(st) == IF st = "text" THEN "text" ELSE "vision"

\* error instanceof Error ? error.message : "Unknown error"
InnerMessage(err) == IF err.isError THEN err.message ELSE <<"Unknown error">>

PdfjsLoadError == NewError(<<"Invalid PDF structure.">>)

PdfjsRenderError == NewError(<<"Rendering failed.">>)

NoCanvasError ==
    NewError(<<"OffscreenCanvas not available in this environment. ",
               "Use text extraction fallback.">>)

ConvertError(inner) ==
    NewError(<<"Failed to convert PDF to images: ">> \o InnerMessage(inner))

TextExtractError(inner) ==
    NewError(<<"Failed to extract text from PDF: ">> \o InnerMessage(inner))

\* entering extractFromVision or extractFromText, up to its first await
BeginStrategy(s, stage, log) ==
    /\ pCur' = s
    /\ pStage' = stage
    /\ pPc' = IF s = "vision" THEN "rendering" ELSE "reading"
    /\ pLog' = Append(log, PdfEvent("try", s))
    /\ pOutcome' = pOutcome

\* a catch block that, when the fallback fails too, rethrows the error it caught
StrategyFailsRethrowsFirst(err, log) ==
    LET failed == Append(log, [ev |-> "fail", s |-> pCur, err |-> err])
        firstFail == CHOOSE i \in 1..Len(failed) :
                        /\ failed[i].ev = "fail"
                        /\ \A j \in 1..(i - 1) : failed[j].ev # "fail"
    IN
    IF pStage = "primary"
    THEN BeginStrategy(OtherStrategy(pCur), "fallback", failed)
    ELSE /\ pPc' = "thrown"
         /\ pOutcome' = Thrown(failed[firstFail].err)
         /\ pLog' = failed
         /\ UNCHANGED <<pCur, pStage>>

\* the error reaches extractDataFromPDF: the try block's catch starts the other
\* strategy, the catch block has no handler
StrategyFails(err, log) ==
    LET failed == Append(log, [ev |-> "fail", s |-> pCur, err |-> err]) IN
    IF pStage = "primary"
    THEN BeginStrategy(OtherStrategy(pCur), "fallback", failed)
    ELSE /\ pPc' = "thrown"
         /\ pOutcome' = Thrown(err)
         /\ pLog' = failed
         /\ UNCHANGED <<pCur, pStage>>

StrategyReturns(v, log) ==
    /\ pPc' = "returned"
    /\ pOutcome' = Returned(v)
    /\ pLog' = Append(log, PdfEvent("ok", pCur))
    /\ UNCHANGED <<pCur, pStage>>

PdfStart ==
    /\ entry = "pdf"
    /\ pPc = "start"
    /\ BeginStrategy(PrimaryStrategy(strategy), "primary", pLog)
    /\ UNCHANGED <<inputVars, pdfInputVars, pages, pResults, pOrder, retryVars, mergeVars, regVars, codecVars, dbVars, routeVars>>

\* a conversion that looks for the rasterization surface only when it renders
\* the first page, after the document has been loaded
VisionRenderedLoadsFirst ==
    /\ pPc = "rendering"
    /\ LET loaded == Append(pLog, PdfEvent("load", "vision"))
           call == extractDataFromImageCall(env, modelId, provider)
           called == loaded \o [i \in 1..numPages |-> PdfEvent("call", "vision")]
       IN
       IF pdfFault = "load"
       THEN StrategyFails(ConvertError(PdfjsLoadError), loaded)
            /\ UNCHANGED <<pages, pResults, pOrder>>
       ELSE IF ~canvas /\ numPages >= 1
       THEN StrategyFails(ConvertError(NoCanvasError), loaded)
            /\ UNCHANGED <<pages, pResults, pOrder>>
       ELSE IF pdfFault = "render" /\ numPages >= 1
       THEN StrategyFails(ConvertError(PdfjsRenderError), loaded)
            /\ UNCHANGED <<pages, pResults, pOrder>>
       ELSE IF numPages = 0
       THEN StrategyFails(NewError(<<"PDF has no pages">>), loaded)
            /\ UNCHANGED <<pages, pResults, pOrder>>
       ELSE IF call.state = "rejected"
       THEN StrategyFails(call.error, loaded) /\ UNCHANGED <<pages, pResults, pOrder>>
       ELSE /\ pPc' = IF numPages = 1 THEN "vision_single" ELSE "vision_pages"
            /\ pages' = [i \in 1..numPages |-> "inflight"]
            /\ pLog' = called
            /\ UNCHANGED <<pCur, pStage, pOutcome, pResults, pOrder>>
    /\ UNCHANGED <<inputVars, pdfInputVars, retryVars, mergeVars, regVars, codecVars, dbVars, routeVars>>

\* convertPDFToImages and what extractFromVision does with the images, up to
\* the await of the page extraction(s)
VisionRendered ==
    /\ pPc = "rendering"
    /\ LET loaded == Append(pLog, PdfEvent("load", "vision"))
           call == extractDataFromImageCall(env, modelId, provider)
           called == loaded \o [i \in 1..numPages |-> PdfEvent("call", "vision")]
       IN
       IF ~canvas
       THEN StrategyFails(ConvertError(NoCanvasError), pLog) /\ UNCHANGED <<pages, pResults, pOrder>>
       ELSE IF pdfFault = "load"
       THEN StrategyFails(ConvertError(PdfjsLoadError), loaded)
            /\ UNCHANGED <<pages, pResults, pOrder>>
       ELSE IF pdfFault = "render" /\ numPages >= 1
       THEN StrategyFails(ConvertError(PdfjsRenderError), loaded)
            /\ UNCHANGED <<pages, pResults, pOrder>>
       ELSE IF numPages = 0
       THEN StrategyFails(NewError(<<"PDF has no pages">>), loaded)
            /\ UNCHANGED <<pages, pResults, pOrder>>
       ELSE IF call.state = "rejected"
       THEN StrategyFails(call.error, loaded) /\ UNCHANGED <<pages, pResults, pOrder>>
       ELSE /\ pPc' = IF numPages = 1 THEN "vision_single" ELSE "vision_pages"
            /\ pages' = [i \in 1..numPages |-> "inflight"]
            /\ pLog' = called
            /\ UNCHANGED <<pCur, pStage, pOutcome, pResults, pOrder>>
    /\ UNCHANGED <<inputVars, pdfInputVars, retryVars, mergeVars, regVars, codecVars, dbVars, routeVars>>

\* a single page whose result is passed through the merge: items deduplicated,
\* title dropped
VisionSingleResolvesMerged ==
    /\ pPc = "vision_single"
    /\ pages' = [pages EXCEPT ![1] = "ok"]
    /\ \E v \in Outputs(PageOutput(docKind, domain, 1)) :
          StrategyReturns([f \in DOMAIN MergedHeader(v) \cup {"items"} |->
                             IF f = "items" THEN MapValues(DedupFrom(<<>>, v.items))
                             ELSE MergedHeader(v)[f]], pLog)
    /\ UNCHANGED <<inputVars, pdfInputVars, pResults, pOrder, retryVars, mergeVars, regVars, codecVars, dbVars, routeVars>>

\* return await extractDataFromImage(env, images[0], ...)
VisionSingleResolves ==
    /\ pPc = "vision_single"
    /\ pages' = [pages EXCEPT ![1] = "ok"]
    /\ \E v \in Outputs(PageOutput(docKind, domain, 1)) : StrategyReturns(v, pLog)
    /\ UNCHANGED <<inputVars, pdfInputVars, pResults, pOrder, retryVars, mergeVars, regVars, codecVars, dbVars, routeVars>>

VisionSingleRejects ==
    /\ pPc = "vision_single"
    /\ pages' = [pages EXCEPT ![1] = "failed"]
    /\ \E err \in Rejections(PageOutput(docKind, domain, 1)) : StrategyFails(err, pLog)
    /\ UNCHANGED <<inputVars, pdfInputVars, pResults, pOrder, retryVars, mergeVars, regVars, codecVars, dbVars, routeVars>>

\* a join that collects the fulfilment values in the order they arrive
StoreResultAsCompleted(results, i, v) ==
    LET free == CHOOSE j \in DOMAIN results :
                   /\ results[j] = [none |-> TRUE]
                   /\ \A k \in DOMAIN results : k < j => results[k] # [none |-> TRUE]
    IN [results EXCEPT ![free] = v]

\* Promise.all keeps each fulfilment value at the index of its promise
StoreResult(results, i, v) == [results EXCEPT ![i] = v]

\* Promise.all fulfils when every promise has fulfilled
AllSettled(ps) == \A i \in DOMAIN ps : ps[i] = "ok"

ResultList(results) == [i \in 1..Len(results) |-> results[i]]

\* a page extraction fulfils; while Promise.all is pending its value is kept, and
\* the last one lets extractFromVision merge and return
PageResolves(i) ==
    /\ pages[i] = "inflight"
    /\ pPc # "vision_single"
    /\ pages' = [pages EXCEPT ![i] = "ok"]
    /\ IF pPc = "vision_pages"
       THEN /\ \E v \in Outputs(PageOutput(docKind, domain, i)) :
                  pResults' = StoreResult(pResults, i, v)
            /\ pOrder' = Append(pOrder, i)
            /\ IF AllSettled(pages')
               THEN StrategyReturns(mergeMultiPageResults(ResultList(pResults')).value, pLog)
               ELSE UNCHANGED <<pPc, pCur, pStage, pOutcome, pLog>>
       ELSE UNCHANGED <<pPc, pCur, pStage, pOutcome, pLog, pResults, pOrder>>
    /\ UNCHANGED <<inputVars, pdfInputVars, retryVars, mergeVars, regVars, codecVars, dbVars, routeVars>>

\* a join that rejects only once every page extraction has settled
PageRejectsWaitsForAll(i) ==
    /\ pages[i] = "inflight"
    /\ pPc # "vision_single"
    /\ pages' = [pages EXCEPT ![i] = "failed"]
    /\ IF pPc = "vision_pages" /\ \A j \in DOMAIN pages' : pages'[j] # "inflight"
       THEN \E err \in Rejections(PageOutput(docKind, domain, i)) : StrategyFails(err, pLog)
       ELSE UNCHANGED <<pPc, pCur, pStage, pOutcome, pLog>>
    /\ UNCHANGED <<inputVars, pdfInputVars, pResults, pOrder, retryVars, mergeVars, regVars, codecVars, dbVars, routeVars>>

\* a page extraction rejects; the first rejection rejects Promise.all
PageRejects(i) ==
    /\ pages[i] = "inflight"
    /\ pPc # "vision_single"
    /\ pages' = [pages EXCEPT ![i] = "failed"]
    /\ IF pPc = "vision_pages"
       THEN \E err \in Rejections(PageOutput(docKind, domain, i)) : StrategyFails(err, pLog)
       ELSE UNCHANGED <<pPc, pCur, pStage, pOutcome, pLog>>
    /\ UNCHANGED <<inputVars, pdfInputVars, pResults, pOrder, retryVars, mergeVars, regVars, codecVars, dbVars, routeVars>>

\* extractTextFromPDF, getReasoningModel and the call of generateText
TextRead ==
    /\ pPc = "reading"
    /\ LET loaded == Append(pLog, PdfEvent("load", "text"))
           model == getReasoningModel(env, modelId, provider, Undefined)
       IN
       IF pdfFault = "load"
       THEN StrategyFails(TextExtractError(PdfjsLoadError), loaded)
       ELSE IF ~model.ok
       THEN StrategyFails(model.error, loaded)
       ELSE /\ pPc' = "text_model"
            /\ pLog' = Append(loaded, PdfEvent("call", "text"))
            /\ UNCHANGED <<pCur, pStage, pOutcome>>
    /\ UNCHANGED <<inputVars, pdfInputVars, pages, pResults, pOrder, retryVars, mergeVars, regVars, codecVars, dbVars, routeVars>>

TextResolves ==
    /\ pPc = "text_model"
    /\ \E v \in Outputs(TextOutput(domain)) : StrategyReturns(v, pLog)
    /\ UNCHANGED <<inputVars, pdfInputVars, pages, pResults, pOrder, retryVars, mergeVars, regVars, codecVars, dbVars, routeVars>>

TextRejects ==
    /\ pPc = "text_model"
    /\ \E err \in Rejections(TextOutput(domain)) : StrategyFails(err, pLog)
    /\ UNCHANGED <<inputVars, pdfInputVars, pages, pResults, pOrder, retryVars, mergeVars, regVars, codecVars, dbVars, routeVars>>

PageResolvesAny == \E i \in 1..numPages : PageResolves(i)

PageRejectsAny == \E i \in 1..numPages : PageRejects(i)

PdfInit ==
    /\ strategy \in {Undefined, "vision", "text"}
    /\ canvas \in BOOLEAN
    /\ pdfFault \in {"none", "load", "render"}
    /\ numPages \in 0..MaxPages
    /\ docKind \in DocKinds
    /\ pPc = "start"
    /\ pCur = "none"
    /\ pStage = "none"
    /\ pages = [i \in 1..numPages |-> "none"]
    /\ pResults = [i \in 1..numPages |-> NoResult]
    /\ pOrder = <<>>
    /\ pOutcome = NoOutcome
    /\ pLog = <<>>

\* the request does not call extractDataFromPDF
PdfIdle ==
    /\ strategy = Undefined
    /\ canvas = FALSE
    /\ pdfFault = "none"
    /\ numPages = 0
    /\ docKind = "distinct"
    /\ pPc = "idle"
    /\ pCur = "none"
    /\ pStage = "none"
    /\ pages = <<>>
    /\ pResults = <<>>
    /\ pOrder = <<>>
    /\ pOutcome = NoOutcome
    /\ pLog = <<>>

\* the request does not call extractDataFromImageWithRetry
RetryIdle ==
    /\ maxRetries = 0
    /\ rPc = "idle"
    /\ attempt = 0
    /\ lastError = Null
    /\ rCall = NoCall
    /\ rOutcome = NoOutcome
    /\ rLog = <<>>

(***************************************************************************)
(* mergeMultiPageResults applied to arbitrary page results                  *)
(***************************************************************************)
MergeKeys == {"wbc", "alt"}

\* the n-th item of a document: its name and its value (when it has one) tell
\* it from every other item
MergeItem(n, k, withValue) ==
    IF withValue
    THEN [key |-> k, name |-> n, value |-> 100 + n, status |-> "normal"]
    ELSE [key |-> k, name |-> n, status |-> "normal"]

\* the result of page i holding the given items; title and summary are optional,
\* and the pages of one document need not agree on any metadata field
MergePage(i, items, titled) ==
    LET t == IF i = 1 THEN "health" ELSE "finance" IN
    IF titled
    THEN [type |-> t, title |-> i, category |-> i, date |-> i, summary |-> i,
          items |-> items]
    ELSE [type |-> t, category |-> i, date |-> i, items |-> items]

\* which pages of a document carry a title and a summary
MergeTitlings == {"none", "all", "first", "rest"}

PageTitled(titling, i) ==
    \/ titling = "all"
    \/ titling = "first" /\ i = 1
    \/ titling = "rest" /\ i > 1

\* the items at positions lo+1 .. hi of a sequence
Slice(seq, lo, hi) == [j \in 1..(hi - lo) |-> seq[lo + j]]

\* the ways of cutting n items into np consecutive pages (a page may be empty)
PageCuts(n, np) ==
    {c \in [0..np -> 0..n] : /\ c[0] = 0
                             /\ c[np] = n
                             /\ \A q \in 1..np : c[q - 1] <= c[q]}

\* n items with the given keys and value flags, laid out on np pages along cuts c
MergeInput(n, np, ks, vs, c, titling) ==
    LET it == [j \in 1..n |-> MergeItem(j, ks[j], vs[j])] IN
    [q \in 1..np |-> MergePage(q, Slice(it, c[q - 1], c[q]), PageTitled(titling, q))]

MergeApply ==
    /\ entry = "merge"
    /\ mOutcome = NoOutcome
    /\ mOutcome' =
          LET r == mergeMultiPageResults(mResults) IN
          IF r.ok THEN Returned(r.value) ELSE Thrown(r.error)
    /\ UNCHANGED <<inputVars, mResults, retryVars, pdfVars, regVars, codecVars, dbVars, routeVars>>

MergeIdle ==
    /\ mResults = <<>>
    /\ mOutcome = NoOutcome

InputsIdle ==
    /\ env = EnvWith(Undefined, {})
    /\ modelId = Undefined
    /\ provider = Undefined
    /\ domain = "health"

(***************************************************************************)
(* The registry functions and getAIConfig called on their own               *)
(***************************************************************************)
Roles == {"vision", "reasoning", "advanced"}

\* the values DEFAULT_PROVIDER is set to: unset, empty, each supported name, an
\* unsupported name, a supported name in another case
DefaultProviderValues == {Undefined, "", "mistral", "Google"} \cup ProviderSet

\* the values a credential variable is set to
CredentialValues == {Undefined, "", "secret"}

CredentialNames == EnvNames \ {"DEFAULT_PROVIDER"}

\* the explicit provider argument: omitted, empty, each supported name, an unsupported name
ProviderArguments == {Undefined, "", "mistral"} \cup ProviderSet

\* the explicit modelId argument: omitted, empty, a model id
ModelIdArguments == {Undefined, "", "custom-model"}

RegistryCall ==
    /\ entry = "registry"
    /\ gOutcome = NoOutcome
    /\ gOutcome' =
          LET r == CASE role = "vision" -> getVisionModel(env, modelId, provider, binding)
                     [] role = "reasoning" -> getReasoningModel(env, modelId, provider, binding)
                     [] role = "advanced" -> getAdvancedModel(env, modelId, provider, binding)
                     [] role = "custom" -> getCustomModel(env, provider, modelId, binding)
          IN IF r.ok THEN Returned(r) ELSE Thrown(r.error)
    /\ UNCHANGED <<inputVars, role, binding, cOutcome, retryVars, pdfVars, mergeVars, codecVars, dbVars, routeVars>>

ConfigResolve ==
    /\ entry = "config"
    /\ cOutcome = NoOutcome
    /\ cOutcome' = Returned(getAIConfig(env))
    /\ UNCHANGED <<inputVars, role, binding, gOutcome, retryVars, pdfVars, mergeVars, codecVars, dbVars, routeVars>>

\* the request calls no registry function on its own
RegistryIdle ==
    /\ role = "vision"
    /\ binding = Undefined
    /\ gOutcome = NoOutcome
    /\ cOutcome = NoOutcome

(***************************************************************************)
(* utils/base64.ts and the image input of extractDataFromImage.            *)
(* A string is the sequence of its characters, a buffer the sequence of its *)
(* bytes.                                                                   *)
(***************************************************************************)
B64Alphabet ==
    <<"A", "B", "C", "D", "E", "F", "G", "H", "I", "J", "K", "L", "M", "N", "O", "P",
      "Q", "R", "S", "T", "U", "V", "W", "X", "Y", "Z", "a", "b", "c", "d", "e", "f",
      "g", "h", "i", "j", "k", "l", "m", "n", "o", "p", "q", "r", "s", "t", "u", "v",
      "w", "x", "y", "z", "0", "1", "2", "3", "4", "5", "6", "7", "8", "9", "+", "/">>

B64Char(n) == B64Alphabet[n + 1]

B64Index(ch) == CHOOSE n \in 0..63 : B64Alphabet[n + 1] = ch

\* btoa: three code units (each at most 255) become four characters, a
\* remainder of one or two code units is padded with '='
RECURSIVE Btoa(_)
Btoa(c) ==
    IF Len(c) = 0 THEN <<>>
    ELSE IF Len(c) = 1
    THEN <<B64Char(c[1] \div 4), B64Char((c[1] % 4) * 16), "=", "=">>
    ELSE IF Len(c) = 2
    THEN <<B64Char(c[1] \div 4), B64Char((c[1] % 4) * 16 + c[2] \div 16),
           B64Char((c[2] % 16) * 4), "=">>
    ELSE <<B64Char(c[1] \div 4), B64Char((c[1] % 4) * 16 + c[2] \div 16),
           B64Char((c[2] % 16) * 4 + c[3] \div 64), B64Char(c[3] % 64)>>
            \o Btoa(SubSeq(c, 4, Len(c)))

\* the characters of a base64 string before its padding
Unpadded(s) == SelectSeq(s, LAMBDA ch : ch # "=")

\* atob on the unpadded characters: four characters become three code units,
\* a remainder of two or three characters one or two
RECURSIVE AtobFrom(_)
AtobFrom(s) ==
    IF Len(s) < 2 THEN <<>>
    ELSE LET v1 == B64Index(s[1])
             v2 == B64Index(s[2])
         IN
         IF Len(s) = 2 THEN <<v1 * 4 + v2 \div 16>>
         ELSE LET v3 == B64Index(s[3]) IN
              IF Len(s) = 3 THEN <<v1 * 4 + v2 \div 16, (v2 % 16) * 16 + v3 \div 4>>
              ELSE <<v1 * 4 + v2 \div 16, (v2 % 16) * 16 + v3 \div 4,
                     (v3 % 4) * 64 + B64Index(s[4])>>
                      \o AtobFrom(SubSeq(s, 5, Len(s)))

Atob(s) == AtobFrom(Unpadded(s))

\* a conversion of a byte to a character that keeps seven bits only
FromCharCode7Bit(b) == b % 128

\* String.fromCharCode(uint8Array[i]): the code unit with the byte's value
FromCharCode(b) == b % 65536

\* bytes[i] = binary.charCodeAt(i), stored in a Uint8Array
ToUint8(code) == code % 256

arrayBufferToBase64(buffer) ==
    Btoa([i \in 1..Len(buffer) |-> FromCharCode(buffer[i])])

base64ToArrayBuffer(b64) ==
    LET binary == Atob(b64) IN [i \in 1..Len(binary) |-> ToUint8(binary[i])]

DataScheme == <<"d", "a", "t", "a", ":">>

\* 'data:image/jpeg;base64,'
JpegDataUriPrefix ==
    DataScheme \o <<"i", "m", "a", "g", "e", "/", "j", "p", "e", "g", ";",
                    "b", "a", "s", "e", "6", "4", ",">>

\* String.prototype.startsWith
StartsWith(s, prefix) ==
    /\ Len(s) >= Len(prefix)
    /\ SubSeq(s, 1, Len(prefix)) = prefix

\* the imageUrl extractDataFromImage hands to the model
ImageUrlOf(input) ==
    IF input.kind = "string"
    THEN IF StartsWith(input.chars, DataScheme) THEN input.chars
         ELSE JpegDataUriPrefix \o input.chars
    ELSE JpegDataUriPrefix \o arrayBufferToBase64(input.bytes)

\* the byte values a buffer is built from: both ends of the range, both sides
\* of 0x80, a printable character
ByteValues == {0, 1, 65, 127, 128, 255}

\* how a string input begins: bare base64, a jpeg data URI, a png data URI, an
\* https URL, a data URI with its scheme in capitals, the letters 'data' alone
StringHeads ==
    {<<>>,
     JpegDataUriPrefix,
     DataScheme \o <<"i", "m", "a", "g", "e", "/", "p", "n", "g", ";",
                     "b", "a", "s", "e", "6", "4", ",">>,
     <<"h", "t", "t", "p", "s", ":", "/", "/">>,
     <<"D", "A", "T", "A", ":">>,
     <<"d", "a", "t", "a">>}

PayloadChars == {"A", "Q", "/"}

SeqsUpTo(S, n) == UNION {[1..k -> S] : k \in 0..n}

NormalizeImage ==
    /\ entry = "codec"
    /\ imageUrl = NoOutcome
    /\ imageUrl' = Returned(ImageUrlOf(imageInput))
    /\ UNCHANGED <<inputVars, imageInput, base64, decoded, retryVars, pdfVars, mergeVars, regVars, dbVars, routeVars>>

EncodeBuffer ==
    /\ entry = "codec"
    /\ imageInput.kind = "buffer"
    /\ base64 = NoOutcome
    /\ base64' = Returned(arrayBufferToBase64(imageInput.bytes))
    /\ UNCHANGED <<inputVars, imageInput, imageUrl, decoded, retryVars, pdfVars, mergeVars, regVars, dbVars, routeVars>>

DecodeBase64 ==
    /\ entry = "codec"
    /\ base64 # NoOutcome
    /\ decoded = NoOutcome
    /\ decoded' = Returned(base64ToArrayBuffer(base64.value))
    /\ UNCHANGED <<inputVars, imageInput, imageUrl, base64, retryVars, pdfVars, mergeVars, regVars, dbVars, routeVars>>

\* the request neither encodes nor normalizes an image on its own
CodecIdle ==
    /\ imageInput = [kind |-> "buffer", bytes |-> <<>>]
    /\ imageUrl = NoOutcome
    /\ base64 = NoOutcome
    /\ decoded = NoOutcome

(***************************************************************************)
(* services/record-data: updateRecordData on the tables records and metrics *)
(***************************************************************************)
RecordIds == {"r1", "r2"}

\* the metric items a caller passes
UpdateItems ==
    {[key |-> "wbc", name |-> "WBC", value |-> 7, unit |-> "10^9/L", status |-> "normal"],
     [key |-> "alt", name |-> "ALT", value |-> 40, status |-> "high"]}

\* item.unit || null
OrNull(item, f) == IF f \in DOMAIN item /\ Truthy(item[f]) THEN item[f] ELSE "null"

\* the row db.insert(metrics).values({...}) stores for an item
MetricRow(id, recordId, item) ==
    [id |-> id, recordId |-> recordId, key |-> item.key, name |-> item.name,
     value |-> item.value, unit |-> OrNull(item, "unit"), status |-> item.status]

\* the rows a record has after saveRecordData stored the given items
RECURSIVE StoredRows(_, _, _)
StoredRows(recordId, items, firstId) ==
    IF items = <<>> THEN {}
    ELSE {MetricRow(firstId, recordId, Head(items))}
            \cup StoredRows(recordId, Tail(items), firstId + 1)

\* a guard that takes every given list, the empty one too
HasItemsGiven(u) == "items" \in DOMAIN u

\* if (updates.items && updates.items.length > 0)
HasItems(u) == "items" \in DOMAIN u /\ Len(u.items) > 0

\* recordUpdates: updatedAt always, title when it is given
RecordUpdates(row, u) ==
    [row EXCEPT !.updatedAt = "now",
                !.title = IF "title" \in DOMAIN u THEN u.title ELSE @]

\* await db.update(records).set(recordUpdates).where(eq(records.id, recordId))
UpdateRecordRow ==
    /\ entry = "update"
    /\ uPc = "start"
    /\ dbRecords' = [dbRecords EXCEPT ![uRecordId] = RecordUpdates(@, updates)]
    /\ uPc' = IF HasItems(updates) THEN "delete" ELSE "returned"
    /\ UNCHANGED <<dbMetrics, dbNextId, dbBefore, uRecordId, updates, uPending>>
    /\ UNCHANGED <<inputVars, retryVars, pdfVars, mergeVars, regVars, codecVars, routeVars>>

\* await db.delete(metrics).where(eq(metrics.recordId, recordId)), then
\* insertMetrics issues one insert per item; Promise.all of no insert resolves
DeleteMetrics ==
    /\ uPc = "delete"
    /\ dbMetrics' = {m \in dbMetrics : m.recordId # uRecordId}
    /\ uPending' = {i : i \in 1..Len(updates.items)}
    /\ uPc' = IF uPending' = {} THEN "returned" ELSE "insert"
    /\ UNCHANGED <<dbRecords, dbNextId, dbBefore, uRecordId, updates>>
    /\ UNCHANGED <<inputVars, retryVars, pdfVars, mergeVars, regVars, codecVars, routeVars>>

\* one of the inserts of Promise.all(items.map(...)) runs; after the last one
\* updateRecordData returns
InsertMetric ==
    /\ uPc = "insert"
    /\ \E i \in uPending :
          /\ dbMetrics' = dbMetrics \cup {MetricRow(dbNextId, uRecordId, updates.items[i])}
          /\ uPending' = uPending \ {i}
    /\ dbNextId' = dbNextId + 1
    /\ uPc' = IF uPending' = {} THEN "returned" ELSE "insert"
    /\ UNCHANGED <<dbRecords, dbBefore, uRecordId, updates>>
    /\ UNCHANGED <<inputVars, retryVars, pdfVars, mergeVars, regVars, codecVars, routeVars>>

(***************************************************************************)
(* routes: POST /upload, POST /finance/upload and the health upload of      *)
(* routes/records.ts. The three handlers share one shape: validate the      *)
(* file, extract, save, and one catch block around all of it.               *)
(***************************************************************************)
Routes == {"upload", "finance", "health"}

\* the domain each route extracts for
RouteDomain == [upload |-> "health", finance |-> "finance", health |-> "health"]

\* fileType !== 'image' for the image routes, !['image','pdf'].includes(fileType)
\* for /upload
FileTypeAccepted(r, t) == IF r = "upload" THEN t \in {"image", "pdf"} ELSE t = "image"

\* the words the catch block looks for and the message parts they occur in
Occurrences ==
    {<<"Failed to extract text from PDF: ", "extract">>,
     <<"Failed to extract ", "extract">>,
     <<"D1_ERROR: ", "D1">>}

\* error.message.includes(word)
MessageIncludes(message, word) ==
    \E i \in 1..Len(message) : <<message[i], word>> \in Occurrences

\* what saveRecordData rejects with when the database fails
DatabaseErrors ==
    {NewError(<<"D1_ERROR: ", "no such table: records">>),
     NewError(<<"Failed query: ", "insert into \"records\"">>)}

JsonResponse(status, error, details) ==
    [status |-> status, error |-> error, details |-> details]

\* the catch block of the three handlers
CatchResponse(error) ==
    IF error.isError /\ MessageIncludes(error.message, "extract")
    THEN JsonResponse(422, "Extraction failed", error.message)
    ELSE IF error.isError
            /\ (MessageIncludes(error.message, "database") \/ MessageIncludes(error.message, "D1"))
    THEN JsonResponse(500, "Database error", error.message)
    ELSE JsonResponse(500, "Internal server error",
                      IF error.isError THEN error.message ELSE <<"Unknown error">>)

RouteFailure(cause, error) == [cause |-> cause, error |-> error]

\* the settlements of extractDataFromImage(c.env, arrayBuffer, domain)
ImageRouteFailures(e, d) ==
    LET call == extractDataFromImageCall(e, Undefined, Undefined) IN
    IF call.state = "rejected" THEN {RouteFailure("config", call.error)}
    ELSE {RouteFailure("model", err) : err \in Rejections(ImageOutput(d, 1))}

ImageRouteOutputs(e, d) ==
    IF extractDataFromImageCall(e, Undefined, Undefined).state = "rejected" THEN {}
    ELSE Outputs(ImageOutput(d, 1))

\* the settlements of extractDataFromPDF(c.env, arrayBuffer, {strategy: 'vision'}):
\* it returns what the vision or the text strategy returns and rejects with
\* the error of the text strategy, the one tried last
PdfRouteFailures(e, d) ==
    LET model == getReasoningModel(e, Undefined, Undefined, Undefined) IN
    {RouteFailure("document", TextExtractError(PdfjsLoadError))}
       \cup (IF ~model.ok THEN {RouteFailure("config", model.error)}
             ELSE {RouteFailure("model", err) : err \in Rejections(TextOutput(d))})

PdfRouteOutputs(e, d) ==
    ImageRouteOutputs(e, d)
       \cup (IF getReasoningModel(e, Undefined, Undefined, Undefined).ok
             THEN Outputs(TextOutput(d)) ELSE {})

\* the handler up to the extraction: a file of another type is answered with 400
RouteValidate ==
    /\ entry = "route"
    /\ rtPc = "start"
    /\ IF FileTypeAccepted(route, fileType)
       THEN /\ rtPc' = "extracting"
            /\ UNCHANGED response
       ELSE /\ rtPc' = "done"
            /\ response' = Returned(JsonResponse(400, "Invalid file type", <<>>))
    /\ UNCHANGED <<route, fileType, rtCaught, rtCause, rtData>>
    /\ UNCHANGED <<inputVars, retryVars, pdfVars, mergeVars, regVars, codecVars, dbVars>>

\* the extraction fulfils; the handler goes on to save the record
RouteExtractionResolves ==
    /\ rtPc = "extracting"
    /\ \E v \in (IF fileType = "pdf" THEN PdfRouteOutputs(env, domain)
                 ELSE ImageRouteOutputs(env, domain)) :
          rtData' = v
    /\ rtPc' = "saving"
    /\ UNCHANGED <<route, fileType, rtCaught, rtCause, response>>
    /\ UNCHANGED <<inputVars, retryVars, pdfVars, mergeVars, regVars, codecVars, dbVars>>

\* the extraction rejects; the catch block answers
RouteExtractionRejects ==
    /\ rtPc = "extracting"
    /\ \E f \in (IF fileType = "pdf" THEN PdfRouteFailures(env, domain)
                 ELSE ImageRouteFailures(env, domain)) :
          /\ rtCaught' = f.error
          /\ rtCause' = f.cause
          /\ response' = Returned(CatchResponse(f.error))
    /\ rtPc' = "done"
    /\ UNCHANGED <<route, fileType, rtData>>
    /\ UNCHANGED <<inputVars, retryVars, pdfVars, mergeVars, regVars, codecVars, dbVars>>

\* saveRecordData fulfils; the handler answers with the record
RouteSaveResolves ==
    /\ rtPc = "saving"
    /\ response' = Returned([status |-> 200, error |-> "none", details |-> <<>>,
                             data |-> rtData])
    /\ rtPc' = "done"
    /\ UNCHANGED <<route, fileType, rtCaught, rtCause, rtData>>
    /\ UNCHANGED <<inputVars, retryVars, pdfVars, mergeVars, regVars, codecVars, dbVars>>

\* saveRecordData rejects; the catch block answers
RouteSaveRejects ==
    /\ rtPc = "saving"
    /\ \E err \in DatabaseErrors :
          /\ rtCaught' = err
          /\ response' = Returned(CatchResponse(err))
    /\ rtCause' = "database"
    /\ rtPc' = "done"
    /\ UNCHANGED <<route, fileType, rtData>>
    /\ UNCHANGED <<inputVars, retryVars, pdfVars, mergeVars, regVars, codecVars, dbVars>>

\* the request is not an upload
RouteIdle ==
    /\ route = "none"
    /\ fileType = "unknown"
    /\ rtPc = "idle"
    /\ rtCaught = Null
    /\ rtCause = "none"
    /\ rtData = NoResult
    /\ response = NoOutcome

\* the request does not call updateRecordData
DbIdle ==
    /\ dbRecords = <<>>
    /\ dbMetrics = {}
    /\ dbNextId = 1
    /\ dbBefore = {}
    /\ uRecordId = "r1"
    /\ updates = [none |-> TRUE]
    /\ uPc = "idle"
    /\ uPending = {}

\* the lists of items saveRecordData stored for a record before the update
StoredItemLists ==
    {<<>>,
     <<[key |-> "hgb", name |-> "HGB", value |-> 130, unit |-> "g/L", status |-> "normal"]>>,
     <<[key |-> "hgb", name |-> "HGB", value |-> 130, unit |-> "g/L", status |-> "normal"],
       [key |-> "wbc", name |-> "WBC", value |-> 12, status |-> "high"]>>}

\* the updates a caller passes: a title or none, items or none
UpdateArguments ==
    {[none |-> TRUE], [title |-> "renamed"]}
        \cup {[items |-> items] : items \in SeqsUpTo(UpdateItems, MaxUpdateItems)}
        \cup {[title |-> "renamed", items |-> items] :
                  items \in SeqsUpTo(UpdateItems, MaxUpdateItems)}

vars == <<inputVars, retryVars, pdfVars, mergeVars, regVars, codecVars, dbVars, routeVars>>

Init ==
    /\ entry \in {"retry", "pdf"}
    /\ \E r \in RegistryInputs :
          /\ env = r.env
          /\ modelId = r.modelId
          /\ provider = r.provider
    /\ domain \in DataDomains
    /\ IF entry = "retry" THEN RetryInit ELSE RetryIdle
    /\ IF entry = "pdf" THEN PdfInit ELSE PdfIdle
    /\ MergeIdle
    /\ RegistryIdle
    /\ CodecIdle
    /\ DbIdle
    /\ RouteIdle

InitMerge ==
    /\ entry = "merge"
    /\ InputsIdle
    /\ RetryIdle
    /\ PdfIdle
    /\ \E np \in 0..MaxMergePages, n \in 0..MaxMergeItems :
          \E ks \in [1..n -> MergeKeys], vs \in [1..n -> BOOLEAN], titling \in MergeTitlings :
             \E c \in PageCuts(n, np) :
                mResults = MergeInput(n, np, ks, vs, c, titling)
    /\ mOutcome = NoOutcome
    /\ RegistryIdle
    /\ CodecIdle
    /\ DbIdle
    /\ RouteIdle

\* every environment: each variable unset, empty or set
InitConfig ==
    /\ entry = "config"
    /\ \E dp \in DefaultProviderValues, cr \in [CredentialNames -> CredentialValues] :
          env = [n \in EnvNames |-> IF n = "DEFAULT_PROVIDER" THEN dp ELSE cr[n]]
    /\ modelId = Undefined
    /\ provider = Undefined
    /\ domain = "health"
    /\ RetryIdle
    /\ PdfIdle
    /\ MergeIdle
    /\ RegistryIdle
    /\ CodecIdle
    /\ DbIdle
    /\ RouteIdle

\* a registry function called with every combination of arguments, in
\* environments with none, one, two or all of the credential variables set
InitRegistry ==
    /\ entry = "registry"
    /\ \E dp \in {Undefined, "mistral"} \cup ProviderSet,
          present \in {c \in SUBSET CredentialNames :
                          Cardinality(c) <= 2 \/ c = CredentialNames} :
          env = EnvWith(dp, present)
    /\ modelId \in ModelIdArguments
    /\ provider \in ProviderArguments
    /\ domain = "health"
    /\ role \in Roles \cup {"custom"}
    /\ binding \in {Undefined, "AI"}
    /\ gOutcome = NoOutcome
    /\ cOutcome = NoOutcome
    /\ RetryIdle
    /\ PdfIdle
    /\ MergeIdle
    /\ CodecIdle
    /\ DbIdle
    /\ RouteIdle

\* an image given as a string or as a buffer of up to MaxBytes bytes
InitCodec ==
    /\ entry = "codec"
    /\ InputsIdle
    /\ RetryIdle
    /\ PdfIdle
    /\ MergeIdle
    /\ RegistryIdle
    /\ \/ \E bytes \in SeqsUpTo(ByteValues, MaxBytes) :
             imageInput = [kind |-> "buffer", bytes |-> bytes]
       \/ \E head \in StringHeads, payload \in SeqsUpTo(PayloadChars, MaxPayload) :
             imageInput = [kind |-> "string", chars |-> head \o payload]
    /\ imageUrl = NoOutcome
    /\ base64 = NoOutcome
    /\ decoded = NoOutcome
    /\ DbIdle
    /\ RouteIdle

\* two stored records, each with the metrics saveRecordData inserted, and a
\* call of updateRecordData on one of them
InitDb ==
    /\ entry = "update"
    /\ InputsIdle
    /\ RetryIdle
    /\ PdfIdle
    /\ MergeIdle
    /\ RegistryIdle
    /\ CodecIdle
    /\ RouteIdle
    /\ dbRecords = [r \in RecordIds |-> [title |-> "report", updatedAt |-> "created"]]
    /\ \E first \in StoredItemLists, second \in StoredItemLists :
          /\ dbMetrics = StoredRows("r1", first, 1)
                            \cup StoredRows("r2", second, Len(first) + 1)
          /\ dbNextId = Len(first) + Len(second) + 1
    /\ dbBefore = dbMetrics
    /\ uRecordId \in RecordIds
    /\ updates \in UpdateArguments
    /\ uPc = "start"
    /\ uPending = {}

\* an upload of a file of any type to one of the three routes, in every
\* environment of RegistryInputs
InitRoute ==
    /\ entry = "route"
    /\ route \in Routes
    /\ fileType \in {"image", "pdf", "unknown"}
    /\ \E r \in RegistryInputs : env = r.env
    /\ modelId = Undefined
    /\ provider = Undefined
    /\ domain = RouteDomain[route]
    /\ RetryIdle
    /\ PdfIdle
    /\ MergeIdle
    /\ RegistryIdle
    /\ CodecIdle
    /\ DbIdle
    /\ rtPc = "start"
    /\ rtCaught = Null
    /\ rtCause = "none"
    /\ rtData = NoResult
    /\ response = NoOutcome

Next ==
    \/ RetryStart
    \/ AttemptResolves
    \/ AttemptRejects
    \/ RetryWake
    \/ PdfStart
    \/ VisionRendered
    \/ VisionSingleResolves
    \/ VisionSingleRejects
    \/ PageResolvesAny
    \/ PageRejectsAny
    \/ TextRead
    \/ TextResolves
    \/ TextRejects

Spec == Init /\ [][Next]_vars

NextMerge == MergeApply

SpecMerge == InitMerge /\ [][NextMerge]_vars

NextConfig == ConfigResolve

SpecConfig == InitConfig /\ [][NextConfig]_vars

NextRegistry == RegistryCall

SpecRegistry == InitRegistry /\ [][NextRegistry]_vars

NextCodec ==
    \/ NormalizeImage
    \/ EncodeBuffer
    \/ DecodeBase64

SpecCodec == InitCodec /\ [][NextCodec]_vars

NextDb ==
    \/ UpdateRecordRow
    \/ DeleteMetrics
    \/ InsertMetric

SpecDb == InitDb /\ [][NextDb]_vars

NextRoute ==
    \/ RouteValidate
    \/ RouteExtractionResolves
    \/ RouteExtractionRejects
    \/ RouteSaveResolves
    \/ RouteSaveRejects

SpecRoute == InitRoute /\ [][NextRoute]_vars

(***************************************************************************)
(* Properties                                                              *)
(***************************************************************************)
EventsOf(log, e) == SelectSeq(log, LAMBDA x : x.ev = e)

LastOf(seq) == seq[Len(seq)]

\* the strategies tried, in order
Tried == [i \in 1..Len(EventsOf(pLog, "try")) |-> EventsOf(pLog, "try")[i].s]

\* the strategies that failed, in order
FailedStrategies == [i \in 1..Len(EventsOf(pLog, "fail")) |-> EventsOf(pLog, "fail")[i].s]

Primary == IF strategy = "text" THEN "text" ELSE "vision"

Fallback == IF strategy = "text" THEN "vision" ELSE "text"

PdfRunning == entry = "pdf" /\ pPc # "start"

\* C1: extractDataFromPDF tries the primary strategy first; when it succeeds its
\* result is returned and the other strategy is never tried; when it fails the
\* other strategy is tried exactly once, directly after the failure; when that
\* fails too the request fails. No strategy is tried twice: at most two tries.
C1_PrimaryThenFallbackOnce ==
    PdfRunning =>
       /\ Len(Tried) \in {1, 2}
       /\ Tried[1] = Primary
       /\ pLog[1] = PdfEvent("try", Primary)
       /\ Len(Tried) = 2 => Tried[2] = Fallback
       /\ \A i \in 2..Len(pLog) :
             pLog[i].ev = "try" => (pLog[i - 1].ev = "fail" /\ pLog[i - 1].s = Primary)
       /\ \A i \in 1..Len(pLog) :
             (pLog[i].ev = "fail" /\ pLog[i].s = Primary) =>
                (i < Len(pLog) /\ pLog[i + 1] = PdfEvent("try", Fallback))
       /\ (\E i \in 1..Len(pLog) : pLog[i] = PdfEvent("ok", Primary)) =>
             (Tried = <<Primary>> /\ pPc = "returned")
       /\ pPc = "returned" => LastOf(pLog) = PdfEvent("ok", LastOf(Tried))
       /\ pPc = "thrown" => FailedStrategies = <<Primary, Fallback>>
       /\ FailedStrategies = <<Primary, Fallback>> => pPc = "thrown"

\* C1 witness: a text-primary request whose text and vision strategies both failed
C1_Witness ==
    /\ entry = "pdf"
    /\ strategy = "text"
    /\ pPc = "thrown"
    /\ Tried = <<"text", "vision">>

\* the errors the registry throws for this request's env, modelId and provider
RegistryErrors ==
    {m.error : m \in {r \in {getVisionModel(env, modelId, provider, Undefined),
                             getReasoningModel(env, modelId, provider, Undefined)} : ~r.ok}}

\* C2: a registry error (missing credential, missing binding, unsupported
\* provider) raised while building the model handle ends the call at once: in
\* extractDataFromImageWithRetry no backoff wait and no second attempt follow
\* it, in extractDataFromPDF no fallback strategy is tried after it.
C2_RegistryErrorsEndTheCall ==
    /\ \A i \in 1..Len(rLog) :
          (rLog[i].ev = "fail" /\ rLog[i].err \in RegistryErrors) =>
             /\ i = Len(rLog)
             /\ rPc = "thrown"
             /\ Len(EventsOf(rLog, "start")) = 1
    /\ \A i \in 1..Len(pLog) :
          (pLog[i].ev = "fail" /\ pLog[i].err \in RegistryErrors) =>
             /\ i = Len(pLog)
             /\ pPc = "thrown"
             /\ Len(Tried) = 1

\* C3: when both strategies of extractDataFromPDF fail, the error thrown to the
\* caller is the one the fallback (last tried) strategy raised.
C3_LastErrorSurfaces ==
    (entry = "pdf" /\ pPc = "thrown") =>
       /\ pOutcome.kind = "throw"
       /\ LastOf(pLog).ev = "fail"
       /\ LastOf(pLog).s = Fallback
       /\ pOutcome.error = LastOf(pLog).err

\* C3 witness: no rasterization surface (vision fails), then the text model's
\* output does not match the schema; the schema error is thrown
C3_Witness ==
    /\ entry = "pdf"
    /\ strategy # "text"
    /\ ~canvas
    /\ pPc = "thrown"
    /\ pOutcome.error = SchemaError
    /\ EventsOf(pLog, "fail")[1].err = ConvertError(NoCanvasError)

\* the waits of the retry loop, in order
Waits == [i \in 1..Len(EventsOf(rLog, "sleep")) |-> EventsOf(rLog, "sleep")[i].d]

\* min(1000 * 2^(n-2), 10000), written out for the attempts the cap leaves alone
WaitBefore(n) ==
    CASE n = 2 -> 1000
      [] n = 3 -> 2000
      [] n = 4 -> 4000
      [] n = 5 -> 8000
      [] OTHER -> 10000

RetryRunning == entry = "retry" /\ rPc # "start"

\* C4: with maxRetries >= 1 no wait precedes attempt 1, the wait right before
\* attempt n (2 <= n <= maxRetries) is min(1000 * 2^(n-2), 10000) ms, and no
\* wait follows the final attempt; maxRetries = 3 with every attempt failing
\* waits exactly [1000, 2000].
C4_BackoffSchedule ==
    (RetryRunning /\ maxRetries >= 1) =>
       /\ rLog[1] = Event("start", 1, 0)
       /\ \A i \in 1..Len(rLog) :
             /\ (rLog[i].ev = "start" /\ rLog[i].n >= 2) =>
                   /\ rLog[i - 1].ev = "wake"
                   /\ rLog[i - 2] = Event("sleep", rLog[i].n - 1, WaitBefore(rLog[i].n))
             /\ rLog[i].ev = "sleep" =>
                   /\ rLog[i - 1].ev = "fail"
                   /\ rLog[i].n < maxRetries
       /\ \A k \in 1..Len(Waits) : Waits[k] = WaitBefore(k + 1)
       /\ Len(Waits) <= maxRetries - 1
       /\ rPc \in {"returned", "thrown"} =>
             /\ LastOf(rLog).ev \in {"ok", "fail"}
             /\ Len(Waits) = Len(EventsOf(rLog, "start")) - 1
       /\ (maxRetries = 3 /\ rPc = "thrown") => Waits = <<1000, 2000>>

\* C4 witness: maxRetries = 3, all three attempts failed
C4_Witness ==
    /\ entry = "retry"
    /\ maxRetries = 3
    /\ rPc = "thrown"
    /\ Len(EventsOf(rLog, "fail")) = 3
    /\ Waits = <<1000, 2000>>

\* the base extractions of the call that have started and not settled
InFlight ==
    Len(EventsOf(rLog, "start")) - Len(EventsOf(rLog, "ok")) - Len(EventsOf(rLog, "fail"))

\* C5: the attempts of one extractDataFromImageWithRetry call are sequential: at
\* most one base extraction is in flight, and attempt n+1 starts only after
\* attempt n has failed and the backoff timer set after it has fired.
C5_AttemptsSequential ==
    entry = "retry" =>
       /\ InFlight \in {0, 1}
       /\ InFlight = 1 <=> rPc = "attempt"
       /\ \A k \in 1..Len(EventsOf(rLog, "start")) : EventsOf(rLog, "start")[k].n = k
       /\ \A i \in 1..Len(rLog) :
             (rLog[i].ev = "start" /\ rLog[i].n >= 2) =>
                /\ i >= 4
                /\ rLog[i - 1].ev = "wake" /\ rLog[i - 1].n = rLog[i].n - 1
                /\ rLog[i - 2].ev = "sleep" /\ rLog[i - 2].n = rLog[i].n - 1
                /\ rLog[i - 3].ev = "fail" /\ rLog[i - 3].n = rLog[i].n - 1

\* C5 witness: the third attempt is in flight
C5_Witness ==
    /\ entry = "retry"
    /\ rPc = "attempt"
    /\ attempt = 3
    /\ InFlight = 1

\* the message of a rejection as the catch block reads it
RaisedMessage(err) == IF err.isError THEN err.message ELSE <<"Unknown error">>

\* C6: when all maxRetries attempts fail (maxRetries >= 1) the call throws one
\* error whose message names the domain, the attempt count maxRetries and the
\* message of the error the final attempt raised.
C6_ExhaustionError ==
    (entry = "retry" /\ maxRetries >= 1 /\ rPc = "thrown") =>
       /\ rOutcome.kind = "throw"
       /\ rOutcome.error.isError
       /\ LastOf(rLog).ev = "fail"
       /\ LastOf(rLog).n = maxRetries
       /\ rOutcome.error.message =
             <<"Failed to extract ", domain, " data from image after ",
               ToString(maxRetries), " attempts: ">> \o RaisedMessage(LastOf(rLog).err)

\* C6 witness: the first and the final attempt failed with different errors
C6_Witness ==
    /\ entry = "retry"
    /\ maxRetries >= 2
    /\ rPc = "thrown"
    /\ EventsOf(rLog, "fail")[1].err = TransportError
    /\ LastOf(rLog).err = SchemaError

KeysOf(items) == [j \in 1..Len(items) |-> items[j].key]

\* C8: in the multi-page vision path the merge runs only after every page has
\* fulfilled, and whatever the completion order the merged items follow page
\* order: with distinct keys they are the concatenation a_1,b_1,...,a_n,b_n.
C8_MergeFollowsPageOrder ==
    (entry = "pdf" /\ pPc = "returned" /\ pCur = "vision" /\ numPages >= 2) =>
       /\ \A i \in 1..numPages : pages[i] = "ok"
       /\ Len(pOrder) = numPages
       /\ docKind = "distinct" =>
             /\ Len(pOutcome.value.items) = 2 * numPages
             /\ \A i \in 1..numPages :
                   /\ pOutcome.value.items[2 * i - 1].key = <<"a", i>>
                   /\ pOutcome.value.items[2 * i - 1].value = 10 * i
                   /\ pOutcome.value.items[2 * i].key = <<"b", i>>
                   /\ pOutcome.value.items[2 * i].value = 10 * i + 1
       /\ docKind = "repeat" =>
             KeysOf(pOutcome.value.items) =
                <<<<"wbc", 0>>>> \o [i \in 1..numPages |-> <<"p", i>>]

\* C8 witness: three pages fulfilled in the order 3, 1, 2 and were merged
C8_Witness ==
    /\ entry = "pdf"
    /\ pPc = "returned"
    /\ pCur = "vision"
    /\ docKind = "distinct"
    /\ numPages = 3
    /\ pOrder = <<3, 1, 2>>
    /\ KeysOf(pOutcome.value.items) =
          <<<<"a", 1>>, <<"b", 1>>, <<"a", 2>>, <<"b", 2>>, <<"a", 3>>, <<"b", 3>>>>

\* all items of the given results, in page order
AllItems == Concat([i \in 1..Len(mResults) |-> mResults[i].items])

ItemsWithKey(items, k) == SelectSeq(items, LAMBDA x : x.key = k)

ValuedWithKey(items, k) == SelectSeq(items, LAMBDA x : x.key = k /\ "value" \in DOMAIN x)

Merged == entry = "merge" /\ Len(mResults) >= 2 /\ mOutcome.kind = "return"

\* C9: when exactly two items share a key, one without a value and one with a
\* value, the merged record has exactly one item of that key and it is the one
\* with the value, whichever of the two came first.
C9_DefinedValueWins ==
    Merged =>
       \A k \in MergeKeys :
          LET same == ItemsWithKey(AllItems, k)
              valued == ValuedWithKey(AllItems, k)
          IN (Len(same) = 2 /\ Len(valued) = 1) =>
                ItemsWithKey(mOutcome.value.items, k) = valued

\* C9 witness: the item with the value comes first, the one without on a later page
C9_Witness ==
    /\ Merged
    /\ Len(mResults[1].items) = 1
    /\ Len(mResults[2].items) >= 1
    /\ ItemsWithKey(AllItems, "wbc") = <<mResults[1].items[1], mResults[2].items[1]>>
    /\ "value" \in DOMAIN mResults[1].items[1]
    /\ "value" \notin DOMAIN mResults[2].items[1]
    /\ ItemsWithKey(mOutcome.value.items, "wbc") = <<mResults[1].items[1]>>

\* C10: the merged items have pairwise distinct keys, every key of any page is
\* among them, and of the items of one key that carry a value the latest in
\* page order is the one retained.
C10_DedupByKey ==
    Merged =>
       LET out == mOutcome.value.items IN
       /\ \A i, j \in 1..Len(out) : out[i].key = out[j].key => i = j
       /\ {out[i].key : i \in 1..Len(out)} = {AllItems[i].key : i \in 1..Len(AllItems)}
       /\ \A k \in MergeKeys :
             LET valued == ValuedWithKey(AllItems, k) IN
             Len(valued) >= 1 => ItemsWithKey(out, k) = <<LastOf(valued)>>

\* C10 witness: a key carries a value on two pages; the later page's item is kept
C10_Witness ==
    /\ Merged
    /\ Len(ValuedWithKey(mResults[1].items, "alt")) = 1
    /\ Len(ValuedWithKey(mResults[2].items, "alt")) = 1
    /\ Len(ValuedWithKey(AllItems, "alt")) = 2
    /\ ItemsWithKey(mOutcome.value.items, "alt") = ValuedWithKey(mResults[2].items, "alt")

\* two records agree on an optional field: both lack it or both hold the same value
SameField(r, q, f) ==
    /\ f \in DOMAIN r <=> f \in DOMAIN q
    /\ f \in DOMAIN r => r[f] = q[f]

MetadataFields == {"type", "category", "date", "summary"}

\* C11: the record merged from two or more page results has the type, category,
\* date and summary of the first page's result, whatever the later pages hold.
C11_MetadataFromFirstPage ==
    Merged => \A f \in MetadataFields : SameField(mOutcome.value, mResults[1], f)

\* C11 witness: three pages that disagree on every metadata field, merged
C11_Witness ==
    /\ Merged
    /\ Len(mResults) = 3
    /\ \A f \in MetadataFields :
          /\ f \in DOMAIN mResults[1]
          /\ \A i \in {2, 3} : f \in DOMAIN mResults[i] /\ mResults[i][f] # mResults[1][f]
          /\ SameField(mOutcome.value, mResults[1], f)

\* the events of one strategy and kind in the log of extractDataFromPDF
PdfEventsOf(e, st) == SelectSeq(pLog, LAMBDA x : x.ev = e /\ x.s = st)

ReturnedBy(st) ==
    /\ PdfRunning
    /\ pOutcome.kind = "return"
    /\ LastOf(pLog) = PdfEvent("ok", st)

\* C12: for a PDF that renders to exactly one page the vision path issues exactly
\* one image extraction and returns that extraction's result as it is: nothing
\* is merged or deduplicated, so duplicate keys and the title are still there.
C12_SinglePageReturnedAsIs ==
    (PdfRunning /\ numPages = 1) =>
       /\ Len(PdfEventsOf("call", "vision")) <= 1
       /\ ReturnedBy("vision") =>
             /\ Len(PdfEventsOf("call", "vision")) = 1
             /\ pOutcome.value = PageOutput(docKind, domain, 1)
             /\ pResults = <<NoResult>>

\* C12 witness: the one page lists a key twice and has a title; both are returned
C12_Witness ==
    /\ numPages = 1
    /\ docKind = "twice"
    /\ ReturnedBy("vision")
    /\ "title" \in DOMAIN pOutcome.value
    /\ Len(pOutcome.value.items) = 2
    /\ pOutcome.value.items[1].key = pOutcome.value.items[2].key

\* C13: when page rendering yields no pages, extractDataFromPDF ends in failure
\* and never returns a record.
C13_ZeroPagesIsFatal ==
    (PdfRunning /\ numPages = 0) => pOutcome.kind # "return"

\* C14: without a rasterization surface the vision path fails before the PDF is
\* loaded and before any model call is issued, with the conversion error; in a
\* vision-primary request the text path is attempted directly after it.
C14_NoSurfaceFailsFirst ==
    (PdfRunning /\ ~canvas) =>
       /\ PdfEventsOf("load", "vision") = <<>>
       /\ PdfEventsOf("call", "vision") = <<>>
       /\ PdfEventsOf("ok", "vision") = <<>>
       /\ \A i \in 1..Len(pLog) :
             (pLog[i].ev = "fail" /\ pLog[i].s = "vision") =>
                /\ pLog[i].err = ConvertError(NoCanvasError)
                /\ pLog[i - 1] = PdfEvent("try", "vision")
       /\ (Primary = "vision" /\ pPc # "rendering") =>
             /\ Len(pLog) >= 3
             /\ pLog[2].ev = "fail" /\ pLog[2].s = "vision"
             /\ pLog[3] = PdfEvent("try", "text")

\* C14 witness: vision-primary request without a surface for a loadable 2-page
\* PDF; the vision path has failed and the text path has issued its model call
C14_Witness ==
    /\ PdfRunning
    /\ ~canvas
    /\ Primary = "vision"
    /\ pdfFault = "none"
    /\ numPages = 2
    /\ Len(pLog) = 5
    /\ pLog[2] = [ev |-> "fail", s |-> "vision", err |-> ConvertError(NoCanvasError)]
    /\ pLog[3] = PdfEvent("try", "text")
    /\ pLog[5] = PdfEvent("call", "text")

\* C15: every record returned by extractDataFromImage (the attempt of
\* extractDataFromImageWithRetry) and by extractDataFromPDF, the merged
\* multi-page record included, matches RecordDataSchema with items matching
\* MetricItemSchema; so does every page result the merge is given.
C15_ReturnedRecordsMatchSchema ==
    /\ rOutcome.kind = "return" => MatchesRecordDataSchema(rOutcome.value)
    /\ pOutcome.kind = "return" => MatchesRecordDataSchema(pOutcome.value)
    /\ \A i \in 1..Len(pResults) :
          pResults[i] # NoResult => MatchesRecordDataSchema(pResults[i])

\* C15 witness: a record merged from three pages is returned and matches the schema
C15_Witness ==
    /\ ReturnedBy("vision")
    /\ numPages = 3
    /\ docKind = "twice"
    /\ "title" \notin DOMAIN pOutcome.value
    /\ MatchesRecordDataSchema(pOutcome.value)

\* a value is set: neither undefined nor the empty string
IsSet(v) == v \notin {Undefined, ""}

\* the credential of a provider is present in the environment
CredentialPresent(p) ==
    CASE p = "google" -> IsSet(env["GOOGLE_GENERATIVE_AI_API_KEY"])
      [] p = "openai" -> IsSet(env["OPENAI_API_KEY"])
      [] p = "anthropic" -> IsSet(env["ANTHROPIC_API_KEY"])
      [] p = "deepseek" -> IsSet(env["DEEPSEEK_API_KEY"])
      [] p = "openrouter" -> IsSet(env["OPENROUTER_API_KEY"])
      [] p = "cloudflare" ->
           IsSet(env["CLOUDFLARE_ACCOUNT_ID"]) /\ IsSet(env["CLOUDFLARE_API_KEY"])

SupportedProviders == {"google", "openai", "anthropic", "deepseek", "openrouter", "cloudflare"}

DetectionOrder == <<"google", "openai", "anthropic", "deepseek", "openrouter", "cloudflare">>

\* the provider the resolution order gives for the environment
ExpectedDefaultProvider ==
    IF env["DEFAULT_PROVIDER"] \in SupportedProviders THEN env["DEFAULT_PROVIDER"]
    ELSE IF \E i \in 1..6 : CredentialPresent(DetectionOrder[i])
    THEN DetectionOrder[CHOOSE i \in 1..6 :
                           /\ CredentialPresent(DetectionOrder[i])
                           /\ \A j \in 1..(i - 1) : ~CredentialPresent(DetectionOrder[j])]
    ELSE "openrouter"

ConfigResolved == entry = "config" /\ cOutcome # NoOutcome

SelectedProvider ==
    IF IsSet(provider) THEN provider ELSE ExpectedDefaultProvider

\* the credential variable a provider's handle requires, and how its error names it
RequiredKey ==
    [google |-> "GOOGLE_GENERATIVE_AI_API_KEY", openai |-> "OPENAI_API_KEY",
     anthropic |-> "ANTHROPIC_API_KEY", deepseek |-> "DEEPSEEK_API_KEY",
     openrouter |-> "OPENROUTER_API_KEY"]

KeyLabel ==
    [google |-> "Google", openai |-> "OpenAI", anthropic |-> "Anthropic",
     deepseek |-> "DeepSeek", openrouter |-> "OpenRouter"]

CredentialAbsent ==
    /\ SelectedProvider \in DOMAIN RequiredKey
    /\ ~IsSet(env[RequiredKey[SelectedProvider]])

MissingKeyError == NewError(<<KeyLabel[SelectedProvider], " API key not configured">>)

\* C17: when the selected provider is google, openai, anthropic, deepseek or
\* openrouter and its credential is absent, building the handle throws the
\* error naming that provider's key, and it does so before any model call: in
\* extractDataFromImageWithRetry every attempt rejects with that error without
\* a call in flight; in extractDataFromPDF no model call is ever issued and a
\* strategy whose document step succeeded fails with that error.
C17_MissingCredentialFailsAtConstruction ==
    CredentialAbsent =>
       /\ rCall.state # "inflight"
       /\ rCall.state = "rejected" => rCall.error = MissingKeyError
       /\ \A i \in 1..Len(rLog) :
             rLog[i].ev = "fail" => (rLog[i].err = MissingKeyError /\ rLog[i - 1].ev = "start")
       /\ rOutcome.kind # "return"
       /\ EventsOf(pLog, "call") = <<>>
       /\ \A i \in 1..Len(pLog) :
             (pLog[i].ev = "fail" /\ pLog[i - 1].ev = "load" /\ pdfFault = "none"
                /\ (pLog[i].s = "vision" => numPages >= 1))
                => pLog[i].err = MissingKeyError
       /\ pOutcome.kind # "return"

\* C17 witness: provider 'anthropic' is asked for while only the Google key is
\* set; the second attempt of the retry wrapper has just failed on the missing key
C17_Witness ==
    /\ entry = "retry"
    /\ provider = "anthropic"
    /\ CredentialAbsent
    /\ Len(EventsOf(rLog, "fail")) = 2
    /\ LastOf(EventsOf(rLog, "fail")).err = NewError(<<"Anthropic", " API key not configured">>)

\* C17 witness in extractDataFromPDF: both strategies have failed on the missing key
C17_WitnessPdf ==
    /\ entry = "pdf"
    /\ CredentialAbsent
    /\ SelectedProvider = "deepseek"
    /\ pPc = "thrown"
    /\ pOutcome = Thrown(NewError(<<"DeepSeek", " API key not configured">>))
    /\ Len(EventsOf(pLog, "load")) = 2

RegistryCalled == entry = "registry" /\ gOutcome # NoOutcome

\* the provider the called registry function dispatches on: getCustomModel takes
\* its provider argument as it is, the role functions fall back to the default
DispatchedProvider == IF role = "custom" THEN provider ELSE SelectedProvider

BindingRequiredError ==
    NewError(<<"Cloudflare Workers AI binding is required. ", "Pass the AI binding from env.">>)

\* C18: for the cloudflare provider the handle is built exactly when a binding
\* is supplied: without a binding the call throws the binding error even when
\* CLOUDFLARE_ACCOUNT_ID and CLOUDFLARE_API_KEY are set, with a binding it
\* returns a cloudflare handle even when they are not.
C18_CloudflareNeedsBindingOnly ==
    (RegistryCalled /\ DispatchedProvider = "cloudflare") =>
       IF IsSet(binding)
       THEN gOutcome.kind = "return" /\ gOutcome.value.provider = "cloudflare"
       ELSE gOutcome = Thrown(BindingRequiredError)

\* C18 witness: both Cloudflare variables are set and cloudflare is the default
\* provider, no binding is passed: the call has thrown the binding error
C18_Witness ==
    /\ RegistryCalled
    /\ role = "vision"
    /\ provider = Undefined
    /\ env["DEFAULT_PROVIDER"] = "cloudflare"
    /\ CredentialPresent("cloudflare")
    /\ binding = Undefined
    /\ gOutcome = Thrown(BindingRequiredError)

\* C18, the other half: a binding is passed, no Cloudflare API key is set, and
\* the handle is built
C18_WitnessBound ==
    /\ RegistryCalled
    /\ provider = "cloudflare"
    /\ ~IsSet(env["CLOUDFLARE_API_KEY"])
    /\ binding = "AI"
    /\ gOutcome.kind = "return"

\* C19: a provider name outside the supported set makes each of getVisionModel,
\* getReasoningModel, getAdvancedModel and getCustomModel throw the
\* 'Unsupported provider' error, with or without an explicit modelId.
C19_UnsupportedProviderError ==
    (RegistryCalled /\ IsSet(provider) /\ provider \notin SupportedProviders) =>
       gOutcome = Thrown(NewError(<<"Unsupported provider: ", provider>>))

\* C20: for every provider and each role vision, reasoning, advanced the handle
\* is built with the explicit modelId whenever one is supplied, whatever string
\* it is, and otherwise with the table's entry for the provider and role; the
\* provider is the explicit provider when one is given, else the default.
C20_ExplicitModelIdWins ==
    (RegistryCalled /\ role \in Roles /\ gOutcome.kind = "return") =>
       /\ gOutcome.value.provider = SelectedProvider
       /\ IsSet(provider) => gOutcome.value.provider = provider
       /\ gOutcome.value.modelId =
             IF modelId # Undefined THEN modelId
             ELSE DEFAULT_MODELS[SelectedProvider][role]

VisionFailed == PdfEventsOf("fail", "vision") # <<>>

\* C25: in the multi-page vision path the first page extraction that fails
\* fails the vision attempt in the same step, whatever the other pages are
\* doing; with vision primary the text path starts directly after it; the
\* other extractions stay in flight, and what they deliver afterwards is not
\* stored and never becomes the result of the call.
C25_FirstPageFailureFailsVision ==
    (PdfRunning /\ numPages >= 2) =>
       /\ (\E i \in 1..numPages : pages[i] = "failed") =>
             (VisionFailed /\ pPc # "vision_pages")
       /\ \A i \in 1..Len(pLog) :
             (pLog[i].ev = "fail" /\ pLog[i].s = "vision" /\ Primary = "vision") =>
                (i < Len(pLog) /\ pLog[i + 1] = PdfEvent("try", "text"))
       /\ \A i \in 1..numPages :
             pResults[i] # NoResult =>
                (pages[i] = "ok" /\ \E j \in 1..Len(pOrder) : pOrder[j] = i)
       /\ VisionFailed => ~ReturnedBy("vision")

\* C25 witness: page 1 has failed, the text path's model call is in flight while
\* page 2's extraction still is, and page 3 fulfilled after the failure: its
\* result was not stored
C25_Witness ==
    /\ PdfRunning
    /\ numPages = 3
    /\ Primary = "vision"
    /\ pPc = "text_model"
    /\ pages = <<"failed", "inflight", "ok">>
    /\ pResults[3] = NoResult
    /\ LastOf(pLog) = PdfEvent("call", "text")

\* C27: the record extractDataFromPDF returns from the vision path has no title
\* when the document has two or more pages, although every page's result has
\* one; for a one-page document the page's title is returned.
C27_MergedRecordHasNoTitle ==
    ReturnedBy("vision") =>
       IF numPages >= 2
       THEN /\ "title" \notin DOMAIN pOutcome.value
            /\ \A i \in 1..numPages : "title" \in DOMAIN pResults[i]
       ELSE "title" \in DOMAIN pOutcome.value

\* C27 witness: a two-page document whose pages both carry a title is returned
\* without one
C27_Witness ==
    /\ ReturnedBy("vision")
    /\ numPages = 2
    /\ pResults[1].title = <<"page ", "1">>
    /\ pResults[2].title = <<"page ", "2">>
    /\ "title" \notin DOMAIN pOutcome.value

\* C28: extractDataFromImageWithRetry with maxRetries <= 0 starts no attempt and
\* sets no timer; it throws the exhaustion error, whose message ends with
\* 'undefined' in place of an underlying message; it never returns a result.
C28_NoAttemptWithoutRetries ==
    (entry = "retry" /\ maxRetries <= 0 /\ rPc # "start") =>
       /\ rLog = <<>>
       /\ rCall = NoCall
       /\ rPc = "thrown"
       /\ rOutcome.kind = "throw"
       /\ rOutcome.error.message =
             <<"Failed to extract ", domain, " data from image after ",
               ToString(maxRetries), " attempts: ", "undefined">>

\* C28 witness: maxRetries = 0 with a usable credential; the call has thrown
C28_Witness ==
    /\ entry = "retry"
    /\ maxRetries = 0
    /\ CredentialPresent("google")
    /\ provider = Undefined
    /\ rPc = "thrown"
    /\ rLog = <<>>

\* the keys of a sequence of items in the order of their first occurrences
RECURSIVE FirstOccurrences(_, _)
FirstOccurrences(items, seen) ==
    IF items = <<>> THEN <<>>
    ELSE IF Head(items).key \in seen THEN FirstOccurrences(Tail(items), seen)
    ELSE <<Head(items).key>> \o FirstOccurrences(Tail(items), seen \cup {Head(items).key})

\* C26: the merged items stand in the order in which their keys first occur in
\* the concatenated pages, and the item of a key is its last occurrence that
\* has a value (its first occurrence when none has): the order is that of the
\* first occurrences, not that of the retained items.
C26_FirstPositionLastContent ==
    Merged =>
       LET out == mOutcome.value.items IN
       /\ KeysOf(out) = FirstOccurrences(AllItems, {})
       /\ \A i \in 1..Len(out) :
             LET valued == ValuedWithKey(AllItems, out[i].key) IN
             out[i] = IF valued # <<>> THEN LastOf(valued)
                      ELSE ItemsWithKey(AllItems, out[i].key)[1]

\* C26 witness: 'wbc' on page 1, then 'alt', then 'wbc' again on a later page,
\* all with values: the merged record lists the later 'wbc' item before 'alt'
C26_Witness ==
    /\ Merged
    /\ Len(AllItems) = 3
    /\ KeysOf(AllItems) = <<"wbc", "alt", "wbc">>
    /\ \A i \in 1..3 : "value" \in DOMAIN AllItems[i]
    /\ Len(mResults[1].items) = 1
    /\ mOutcome.value.items = <<AllItems[3], AllItems[2]>>

CloudflareNeverBuilds ==
    /\ rCall.state # "inflight"
    /\ rCall.state = "rejected" => rCall.error = BindingRequiredError
    /\ \A i \in 1..Len(rLog) : rLog[i].ev = "fail" => rLog[i].err = BindingRequiredError
    /\ rOutcome.kind # "return"
    /\ (rOutcome.kind = "throw" /\ maxRetries >= 1) =>
          rOutcome.error = ExhaustedError(domain, maxRetries, BindingRequiredError)
    /\ EventsOf(pLog, "call") = <<>>
    /\ pOutcome.kind # "return"
    /\ \A i \in 1..Len(pLog) :
          (pLog[i].ev = "fail" /\ pLog[i - 1].ev = "load" /\ pdfFault = "none"
             /\ (pLog[i].s = "vision" => numPages >= 1))
             => pLog[i].err = BindingRequiredError

\* C30 as stated: whenever the resolved provider is cloudflare the extraction
\* entry points issue no model call and fail with the missing-binding error
\* (the retry wrapper inside its exhaustion error, extractDataFromPDF as the
\* error it throws).
C30_CloudflareFailsWithBindingError ==
    SelectedProvider = "cloudflare" =>
       /\ CloudflareNeverBuilds
       /\ pOutcome.kind = "throw" => pOutcome.error = BindingRequiredError

\* C30 amended: whenever the resolved provider is cloudflare the extraction
\* entry points issue no model call and return no result, and every handle
\* construction they reach throws the missing-binding error; the error
\* extractDataFromPDF throws is the missing-binding error unless the strategy
\* tried last failed on the document before it reached the registry.
C30_CloudflareNeverExtracts ==
    SelectedProvider = "cloudflare" =>
       /\ CloudflareNeverBuilds
       /\ (pOutcome.kind = "throw" /\ pOutcome.error # BindingRequiredError) =>
             /\ LastOf(pLog).ev = "fail"
             /\ pLog[Len(pLog) - 1].ev # "load" \/ pdfFault # "none" \/ numPages = 0

\* C30 witness: only the two Cloudflare variables are set, so cloudflare is
\* auto-detected; both strategies of extractDataFromPDF reached the registry
\* and the call has thrown the missing-binding error
C30_Witness ==
    /\ entry = "pdf"
    /\ provider = Undefined
    /\ env["DEFAULT_PROVIDER"] = Undefined
    /\ SelectedProvider = "cloudflare"
    /\ Len(EventsOf(pLog, "load")) = 2
    /\ pOutcome = Thrown(BindingRequiredError)

\* the characters that end or cannot be part of a URI scheme
SchemeBreakers == {":", "/", ";", ",", "=", "+"}

\* the string begins with a scheme: letters followed by a colon
HasSchemePrefix(chars) ==
    \E i \in 2..Len(chars) :
       /\ chars[i] = ":"
       /\ \A j \in 1..(i - 1) : chars[j] \notin SchemeBreakers

\* C21: extractDataFromImage hands a string input that begins with a scheme to
\* the model unchanged, and wraps a string input without a scheme, as bare
\* base64, in 'data:image/jpeg;base64,'.
C21_StringInputNormalization ==
    (entry = "codec" /\ imageInput.kind = "string" /\ imageUrl # NoOutcome) =>
       imageUrl.value = IF HasSchemePrefix(imageInput.chars) THEN imageInput.chars
                        ELSE JpegDataUriPrefix \o imageInput.chars

\* C22: decoding the base64 string of a buffer gives the bytes of the buffer.
C22_Base64RoundTrip ==
    (entry = "codec" /\ decoded # NoOutcome) =>
       /\ decoded.value = imageInput.bytes
       /\ Len(base64.value) = 4 * ((Len(imageInput.bytes) + 2) \div 3)

\* C22 witness: the bytes 0x80 0xFF encode to 'gP8=' and decode to themselves
C22_Witness ==
    /\ entry = "codec"
    /\ imageInput = [kind |-> "buffer", bytes |-> <<128, 255>>]
    /\ base64 = Returned(<<"g", "P", "8", "=">>)
    /\ decoded = Returned(<<128, 255>>)

\* C22, the empty buffer: it encodes to the empty string and decodes to itself
C22_WitnessEmpty ==
    /\ entry = "codec"
    /\ imageInput = [kind |-> "buffer", bytes |-> <<>>]
    /\ base64 = Returned(<<>>)
    /\ decoded = Returned(<<>>)

\* the metrics rows of one record
MetricsOf(rows, r) == {m \in rows : m.recordId = r}

\* what a row holds besides its autoincrement id
RowContent(m) == [m EXCEPT !.id = 0]

\* the rows of the updated record are the given items, each as often as given
ExactlyGivenItems ==
    LET given(i) == MetricRow(0, uRecordId, updates.items[i])
        rows == MetricsOf(dbMetrics, uRecordId)
    IN  /\ Cardinality(rows) = Len(updates.items)
        /\ \A i \in 1..Len(updates.items) :
               Cardinality({m \in rows : RowContent(m) = given(i)})
                  = Cardinality({j \in 1..Len(updates.items) : given(j) = given(i)})

MetricsUnchanged(r) == MetricsOf(dbMetrics, r) = MetricsOf(dbBefore, r)

UpdateReturned == entry = "update" /\ uPc = "returned"

\* C24: after updateRecordData returns, the metrics of the record
\* are exactly the given items for every given list, the empty list included;
\* without an items field they are unchanged; the metrics of every other
\* record are unchanged.
C24_ItemsReplaceMetricsForEveryList ==
    UpdateReturned =>
        /\ "items" \in DOMAIN updates => ExactlyGivenItems
        /\ "items" \notin DOMAIN updates => MetricsUnchanged(uRecordId)
        /\ \A r \in RecordIds \ {uRecordId} : MetricsUnchanged(r)

\* what updateRecordData does guarantee: a non-empty list replaces the metrics
\* of the record; the empty list and a missing items field both leave them as
\* they were; the metrics of every other record are unchanged.
NonEmptyItemsReplaceMetrics ==
    UpdateReturned =>
        /\ HasItemsGiven(updates) /\ updates.items # <<>> => ExactlyGivenItems
        /\ ~(HasItemsGiven(updates) /\ updates.items # <<>>) => MetricsUnchanged(uRecordId)
        /\ \A r \in RecordIds \ {uRecordId} : MetricsUnchanged(r)

\* an update with the empty list returned for a record that had metrics
EmptyListKeepsMetrics ==
    /\ UpdateReturned
    /\ "items" \in DOMAIN updates
    /\ updates.items = <<>>
    /\ MetricsOf(dbBefore, uRecordId) # {}
    /\ MetricsUnchanged(uRecordId)

\* an update with two items replaced the two metrics of a record while the
\* other record kept its own
TwoItemsReplacedTwoMetrics ==
    /\ UpdateReturned
    /\ "items" \in DOMAIN updates
    /\ Len(updates.items) = 2
    /\ Cardinality(MetricsOf(dbBefore, uRecordId)) = 2
    /\ MetricsOf(dbMetrics, uRecordId) \cap dbBefore = {}
    /\ \E r \in RecordIds \ {uRecordId} : MetricsOf(dbMetrics, r) # {}

RouteAnswered == entry = "route" /\ rtPc = "done" /\ response # NoOutcome

\* C23: in the upload routes every extraction failure (a model or transport
\* failure, a schema-invalid response) is answered with 422; a configuration
\* error is never answered with 422 and its response does not carry the raw
\* configuration error message.
C23_ExtractionAndConfigurationDistinguished ==
    RouteAnswered =>
        /\ rtCause = "model" => response.value.status = 422
        /\ rtCause = "config" =>
              /\ response.value.status # 422
              /\ response.value.details # rtCaught.message

\* a rejected model call answered with 500
ModelFailureAnswered500 ==
    /\ RouteAnswered
    /\ rtCause = "model"
    /\ rtCaught = SchemaError
    /\ response.value.status = 500

\* a missing API key answered with its message in the body
ConfigurationMessageInBody ==
    /\ RouteAnswered
    /\ rtCause = "config"
    /\ response.value.details = rtCaught.message

=============================================================================
